---- MODULE Spec2Model ----
(***************************************************************************)
(* Slab cache (src/src/lib.rs): Cache::new, Cache::alloc, Cache::free over *)
(* a Memory Backend that hands out slabs, SlabInfo storage and keeps the   *)
(* page -> SlabInfo associations.                                           *)
(*                                                                         *)
(* Addresses are plain integers.  A SlabInfo that lives in memory is an    *)
(* entry of slab_infos (address -> SlabInfoData); the intrusive lists of   *)
(* the cache are sequences of SlabInfo addresses and the free-object list  *)
(* of a slab is a sequence of object addresses.                            *)
(***************************************************************************)
EXTENDS Integers, Sequences, FiniteSets, TLC

\* ---------------------------------------------------------------- bounds
\* Number of slab-sized regions the backend can hand out.
MaxSlabs == 2
\* Number of SlabInfo records the backend can hand out (Large caches).
MaxSlabInfos == 2

\* ------------------------------------------------------ program constants
NULL == 0
\* size_of::<SlabInfo>() / align_of::<SlabInfo>() on a 64-bit target.
SizeOfSlabInfo == 64
AlignOfSlabInfo == 8
\* size_of::<FreeObject>() == two pointers, align_of::<FreeObject>() == 8.
SizeOfFreeObject == 16
AlignOfFreeObject == 8
\* Address of the Cache itself (the value stored in SlabInfoData.cache_ptr).
SelfPtr == 8

Small == "Small"
Large == "Large"
ObjectSizeType == {Small, Large}

\* ------------------------------------------------------------ arithmetic
\* a & !m on unsigned integers, bit by bit.
RECURSIVE AndNot(_, _)
AndNot(a, m) ==
    IF a = 0 THEN 0
    ELSE (IF a % 2 = 1 /\ m % 2 = 0 THEN 1 ELSE 0) + 2 * AndNot(a \div 2, m \div 2)

\* fn align_down(addr, align) = addr & !(align - 1)
align_down(addr, align) == AndNot(addr, align - 1)

\* fn calculate_slab_info_addr_in_small_object_cache(slab_ptr, slab_size)
calculate_slab_info_addr_in_small_object_cache(slab_ptr, ss) ==
    align_down((slab_ptr + ss) - SizeOfSlabInfo, AlignOfSlabInfo)

\* ------------------------------------------------------------ Cache::new
\* Variant: the embedded SlabInfo is forgotten, the whole slab is divided.
objects_in_slab_whole(ss, ost, os) == ss \div os

\* Lines 69-82: calculate the number of objects in a slab.
objects_in_slab(ss, ost, os) ==
    IF ost = Small
    THEN calculate_slab_info_addr_in_small_object_cache(0, ss) \div os
    ELSE ss \div os

\* The result of Cache::new for type T with size_of::<T>() = os and
\* align_of::<T>() = oa.
new(ss, ps, ost, os, oa) ==
    LET Err(msg) == [ok |-> FALSE, panicked |-> FALSE, err |-> msg, objects_per_slab |-> 0]
        Panic == [ok |-> FALSE, panicked |-> TRUE, err |-> "", objects_per_slab |-> 0]
        fake_slab_info_addr == calculate_slab_info_addr_in_small_object_cache(0, ss)
    IN  IF os < SizeOfFreeObject
        THEN Err("Object size smaller than 8/16 (two pointers)")
        ELSE IF ost = Small /\ ss < SizeOfSlabInfo + os
        THEN Err("Slab size is too small")
        ELSE IF ps = 0
        THEN Panic
        ELSE IF ss % ps # 0
        THEN Err("slab_size is not exactly within the page boundaries. Slab must consist of pages.")
        ELSE IF ps % oa # 0
        THEN Err("Type can't be aligned")
        ELSE IF ost = Small /\ (~(fake_slab_info_addr > 0)
                                \/ ~(fake_slab_info_addr <= ss - SizeOfSlabInfo))
        THEN Panic
        ELSE LET n == objects_in_slab(ss, ost, os)
             IN  IF n = 0
                 THEN Err("No memory for any object, slab size too small")
                 ELSE [ok |-> TRUE, panicked |-> FALSE, err |-> "", objects_per_slab |-> n]

\* The configurations the cache is constructed with: the shapes of the
\* repository's tests (Small/Large, slab_size == / > page_size, one or
\* several objects per slab), with object sizes that keep the number of
\* objects per slab small.  Page sizes are powers of two: the backend
\* allocates slabs with Layout::from_size_align(slab_size, page_size).
ConfigInputs ==
    { [slab_size |-> 4096, page_size |-> 4096, object_size_type |-> Small, object_size |-> 1024, object_align |-> 8],
      [slab_size |-> 8192, page_size |-> 4096, object_size_type |-> Small, object_size |-> 2560, object_align |-> 8],
      [slab_size |-> 4096, page_size |-> 4096, object_size_type |-> Large, object_size |-> 2048, object_align |-> 8],
      [slab_size |-> 8192, page_size |-> 4096, object_size_type |-> Large, object_size |-> 3072, object_align |-> 8],
      [slab_size |-> 4096, page_size |-> 4096, object_size_type |-> Small, object_size |-> 2048, object_align |-> 8],
      [slab_size |-> 8192, page_size |-> 4096, object_size_type |-> Large, object_size |-> 8192, object_align |-> 8] }

\* ----------------------------------------------------------------- state
VARIABLES
    object_size,            \* Cache.object_size
    slab_size,              \* Cache.slab_size
    page_size,              \* Cache.page_size
    object_size_type,       \* Cache.object_size_type
    objects_per_slab,       \* Cache.objects_per_slab
    object_align,           \* align_of::<T>()
    free_slabs_list,        \* Cache.free_slabs_list: Seq of SlabInfo addrs
    full_slabs_list,        \* Cache.full_slabs_list: Seq of SlabInfo addrs
    statistics,             \* Cache.statistics
    slab_infos,             \* memory: SlabInfo addr -> SlabInfoData
    allocated_slab_addrs,   \* backend: slabs handed out and not released
    allocated_slab_info_addrs, \* backend: SlabInfo storage handed out
    ht_saved_slab_infos,    \* backend: page addr -> SlabInfo addr
    allocated_ptrs,         \* client: objects returned by alloc, not freed
    last_call,              \* the last completed call and its result
    backend_calls,          \* backend calls made by the last call, in order
    fault,                  \* "none", or how the last call aborted
    mutex,                  \* the client holding the Mutex around the Cache
    client_ptrs,            \* client -> the objects it got and still holds
    pc,                     \* the statement (line of lib.rs) the call in
                            \* progress is at, and whether it is inside a
                            \* statement that locked SlabInfo.data
    loop_index,             \* the index variable of the loop the call is in
    slab_lock               \* SlabInfo.data (a Mutex) of the slab the call
                            \* works on is locked

config_vars == <<object_size, slab_size, page_size, object_size_type, objects_per_slab, object_align>>
cache_vars  == <<free_slabs_list, full_slabs_list, statistics, slab_infos>>
backend_vars == <<allocated_slab_addrs, allocated_slab_info_addrs, ht_saved_slab_infos>>
client_vars == <<mutex, client_ptrs>>
step_vars == <<pc, loop_index, slab_lock>>
vars == <<config_vars, cache_vars, backend_vars, allocated_ptrs, last_call, backend_calls,
          fault, client_vars, step_vars>>

\* The clients that share the cache, and the value of a Mutex nobody holds.
Clients == {1, 2}
NoClient == 0

\* The position of a client that is in no call, and a position at the
\* statement of a line of lib.rs.
Idle == 0
At(line) == [line |-> line, locked |-> FALSE]

\* The memory the backend owns: slab regions (page aligned, slab_size
\* apart) and, above them, storage for SlabInfo records.
SlabRegions == { k * slab_size : k \in 1..MaxSlabs }
SlabInfoArena == (MaxSlabs + 1) * slab_size
SlabInfoRegions == { SlabInfoArena + k * SizeOfSlabInfo : k \in 0..(MaxSlabInfos - 1) }

\* The cache and backend state as one value, threaded through a call.
Cur ==
    [ free_slabs_list |-> free_slabs_list,
      full_slabs_list |-> full_slabs_list,
      statistics |-> statistics,
      slab_infos |-> slab_infos,
      allocated_slab_addrs |-> allocated_slab_addrs,
      allocated_slab_info_addrs |-> allocated_slab_info_addrs,
      ht_saved_slab_infos |-> ht_saved_slab_infos,
      calls |-> <<>>,
      fault |-> "none" ]

Call(fn, args, ret) == [fn |-> fn, args |-> args, ret |-> ret]
Log(s, fn, args, ret) == [s EXCEPT !.calls = Append(@, Call(fn, args, ret))]
Abort(s, kind) == IF s.fault = "none" THEN [s EXCEPT !.fault = kind] ELSE s

\* --------------------------------------------------------- list helpers
push_back(list, x) == Append(list, x)
push_front(list, x) == <<x>> \o list
front(list) == list[1]
back(list) == list[Len(list)]
pop_back(list) == SubSeq(list, 1, Len(list) - 1)
pop_front(list) == Tail(list)
InList(list, x) == \E i \in 1..Len(list) : list[i] = x
\* cursor_mut_from_ptr(x).remove()
remove(list, x) == SelectSeq(list, LAMBDA y : y # x)

\* -------------------------------------------------------- Memory Backend
\* The backend of the repository's tests (TestMemoryBackend): slabs and
\* SlabInfo storage come from an allocator, the saved associations are a
\* hash table, and misuse of the backend trips one of its assertions.  The
\* trait lets alloc_slab and alloc_slab_info fail by returning null.
AllocSlabOutcomes == {NULL} \cup (SlabRegions \ allocated_slab_addrs)
AllocSlabInfoOutcomes == {NULL} \cup (SlabInfoRegions \ allocated_slab_info_addrs)

alloc_slab(s, ret) ==
    Log([s EXCEPT !.allocated_slab_addrs = IF ret = NULL THEN @ ELSE @ \cup {ret}],
        "alloc_slab", <<slab_size, page_size>>, ret)

free_slab(s, slab_ptr, ss, ps) ==
    LET s1 == Log(s, "free_slab", <<slab_ptr, ss, ps>>, NULL)
    IN  IF slab_ptr \notin s.allocated_slab_addrs \/ ss # slab_size \/ ps # page_size
        THEN Abort(s1, "panic")
        ELSE [s1 EXCEPT !.allocated_slab_addrs = @ \ {slab_ptr}]

alloc_slab_info(s, ret) ==
    Log([s EXCEPT !.allocated_slab_info_addrs = IF ret = NULL THEN @ ELSE @ \cup {ret}],
        "alloc_slab_info", <<>>, ret)

free_slab_info(s, slab_info_ptr) ==
    LET s1 == Log(s, "free_slab_info", <<slab_info_ptr>>, NULL)
    IN  IF \/ slab_info_ptr = NULL
           \/ slab_info_ptr % AlignOfSlabInfo # 0
           \/ slab_info_ptr \notin s.allocated_slab_info_addrs
           \/ ~(\E p \in DOMAIN s.ht_saved_slab_infos :
                    s.ht_saved_slab_infos[p] = slab_info_ptr)
        THEN Abort(s1, "panic")
        ELSE [s1 EXCEPT !.allocated_slab_info_addrs = @ \ {slab_info_ptr}]

save_slab_info_addr(s, object_page_addr, slab_info_ptr) ==
    LET s1 == Log(s, "save_slab_info_addr", <<object_page_addr, slab_info_ptr>>, NULL)
    IN  IF \/ slab_info_ptr = NULL
           \/ slab_info_ptr % AlignOfSlabInfo # 0
           \/ object_page_addr % page_size # 0
        THEN Abort(s1, "panic")
        ELSE [s1 EXCEPT !.ht_saved_slab_infos =
                [p \in (DOMAIN @) \cup {object_page_addr} |->
                    IF p = object_page_addr THEN slab_info_ptr ELSE @[p]]]

\* The value get_slab_info_addr returns; NULL stands for the failed lookup,
\* which aborts the call.
saved_slab_info(s, object_page_addr) ==
    IF object_page_addr \in DOMAIN s.ht_saved_slab_infos
    THEN s.ht_saved_slab_infos[object_page_addr]
    ELSE NULL

get_slab_info_addr(s, object_page_addr) ==
    Log(s, "get_slab_info_addr", <<object_page_addr>>, saved_slab_info(s, object_page_addr))

delete_slab_info_addr(s, page_addr) ==
    Log([s EXCEPT !.ht_saved_slab_infos =
            [p \in (DOMAIN @) \ {page_addr} |-> @[p]]],
        "delete_slab_info_addr", <<page_addr>>, NULL)

\* ----------------------------------------------------------- Cache::alloc
\* Variant: the null check on the slab pointer is missing.
alloc_slab_failed_never(slab_ptr) == FALSE

\* if slab_ptr.is_null() { return null_mut(); }
alloc_slab_failed(slab_ptr) == slab_ptr = NULL

\* if slab_info_ptr.is_null() { free slab; return null_mut(); }
alloc_slab_info_failed(slab_info_ptr) == slab_info_ptr = NULL

\* Variant: a new slab is requested while one free slab is still there.
need_new_slab_with_one_left(s) == Len(s.free_slabs_list) <= 1

\* Variant: the wrong list is tested.
need_new_slab_full_list(s) == s.full_slabs_list = <<>>

\* if self.free_slabs_list.is_empty() { need to allocate new slab }
need_new_slab(s) == s.free_slabs_list = <<>>

\* Variant: two neighbouring slots get the same address.
free_object_addr_shared(slab_ptr, free_object_index) ==
    slab_ptr + ((free_object_index \div 2) * object_size)

\* Variant: slots are numbered from 1, the last one ends past the objects.
free_object_addr_from_one(slab_ptr, free_object_index) ==
    slab_ptr + ((free_object_index + 1) * object_size)

\* slab_ptr + free_object_index * object_size
free_object_addr(slab_ptr, free_object_index) ==
    slab_ptr + (free_object_index * object_size)

\* Variant: the fill loop pushes the highest slot first.
free_object_addrs_descending(slab_ptr) ==
    [i \in 1..objects_per_slab |-> free_object_addr(slab_ptr, objects_per_slab - i)]

\* The addresses the fill loop pushes, in order.
free_object_addrs(slab_ptr) ==
    [i \in 1..objects_per_slab |-> free_object_addr(slab_ptr, i - 1)]

\* Write the SlabInfo, add it to the free list, fill its free-object list.
add_new_slab(s, slab_ptr, slab_info_ptr) ==
    LET s1 == [s EXCEPT
                 !.slab_infos =
                    [a \in (DOMAIN @) \cup {slab_info_ptr} |->
                        IF a = slab_info_ptr
                        THEN [ free_objects_list |-> <<>>,
                               cache_ptr |-> SelfPtr,
                               free_objects_number |-> objects_per_slab,
                               slab_ptr |-> slab_ptr ]
                        ELSE @[a]],
                 !.free_slabs_list = push_back(@, slab_info_ptr),
                 !.statistics.free_slabs_number = @ + 1,
                 !.statistics.free_objects_number = @ + objects_per_slab]
        target == front(s1.free_slabs_list)
        addrs == free_object_addrs(slab_ptr)
    IN  IF \E i \in 1..Len(addrs) : addrs[i] % AlignOfFreeObject # 0
        THEN Abort(s1, "panic")
        ELSE [s1 EXCEPT !.slab_infos[target].free_objects_list = @ \o addrs]

\* Variant: the slab is kept by nobody when its SlabInfo cannot be allocated.
rollback_slab_missing(s, slab_ptr) == s

\* Lines 140-143: give the fresh slab back before returning null.
rollback_slab(s, slab_ptr) == free_slab(s, slab_ptr, slab_size, page_size)

\* Lines 112-199: returns the state and whether alloc returns null here.
acquire_slab(s, slab_ret, info_ret) ==
    LET s1 == alloc_slab(s, slab_ret)
    IN  IF alloc_slab_failed(slab_ret)
        THEN [s |-> s1, null |-> TRUE]
        ELSE IF object_size_type = Small
        THEN LET slab_info_addr ==
                    calculate_slab_info_addr_in_small_object_cache(slab_ret, slab_size)
             IN  IF ~(slab_info_addr > slab_ret)
                    \/ ~(slab_info_addr <= slab_ret + slab_size - SizeOfSlabInfo)
                    \/ slab_info_addr % AlignOfSlabInfo # 0
                 THEN [s |-> Abort(s1, "panic"), null |-> FALSE]
                 ELSE [s |-> add_new_slab(s1, slab_ret, slab_info_addr), null |-> FALSE]
        ELSE LET s2 == alloc_slab_info(s1, info_ret)
             IN  IF alloc_slab_info_failed(info_ret)
                 THEN [s |-> rollback_slab(s2, slab_ret), null |-> TRUE]
                 ELSE IF info_ret = NULL \/ info_ret % AlignOfSlabInfo # 0
                 THEN [s |-> Abort(s2, "panic"), null |-> FALSE]
                 ELSE [s |-> add_new_slab(s2, slab_ret, info_ret), null |-> FALSE]

\* Variant: the object is counted as taken but stays in the slab's list.
take_object_left_in_list(s, free_slab_info_ptr) ==
    [s EXCEPT !.slab_infos[free_slab_info_ptr].free_objects_number = @ - 1,
              !.statistics.free_objects_number = @ - 1]

\* Variant: the cache's count of free objects is not touched.
take_object_uncounted(s, free_slab_info_ptr) ==
    [s EXCEPT !.slab_infos[free_slab_info_ptr].free_objects_list = pop_back(@),
              !.slab_infos[free_slab_info_ptr].free_objects_number = @ - 1]

\* Lines 207-211: pop the last free object of the front free slab.
take_object(s, free_slab_info_ptr) ==
    [s EXCEPT !.slab_infos[free_slab_info_ptr].free_objects_list = pop_back(@),
              !.slab_infos[free_slab_info_ptr].free_objects_number = @ - 1,
              !.statistics.free_objects_number = @ - 1]

\* Variant: the saving is skipped after the first object whatever the slab size.
dont_save_any_slab_size(s, free_slab_info_ptr) ==
    IF objects_per_slab >= 2
    THEN s.slab_infos[free_slab_info_ptr].free_objects_number <= objects_per_slab - 2
    ELSE FALSE

\* Variant: the saving is skipped only from the third object of a slab on.
dont_save_after_two(s, free_slab_info_ptr) ==
    IF objects_per_slab >= 3
    THEN slab_size = page_size
         /\ s.slab_infos[free_slab_info_ptr].free_objects_number
               <= objects_per_slab - 3
    ELSE FALSE

\* Variant: the address is saved again for every object.
dont_save_never(s, free_slab_info_ptr) == FALSE

\* Lines 216-224: in a one-page slab only the first object saves the address.
dont_save(s, free_slab_info_ptr) ==
    IF objects_per_slab >= 2
    THEN slab_size = page_size
         /\ s.slab_infos[free_slab_info_ptr].free_objects_number
               <= objects_per_slab - 2
    ELSE FALSE

\* Variant: the address is saved in every kind of cache.
save_slab_info_always(s, free_slab_info_ptr, free_object_ptr) ==
    LET free_object_page_addr == align_down(free_object_ptr, page_size)
    IN  IF ~dont_save(s, free_slab_info_ptr)
        THEN save_slab_info_addr(s, free_object_page_addr, free_slab_info_ptr)
        ELSE s

\* Lines 213-230: save the SlabInfo address for the object's page.
save_slab_info(s, free_slab_info_ptr, free_object_ptr) ==
    IF ~(object_size_type = Small /\ slab_size = page_size)
    THEN LET free_object_page_addr == align_down(free_object_ptr, page_size)
         IN  IF ~dont_save(s, free_slab_info_ptr)
             THEN save_slab_info_addr(s, free_object_page_addr, free_slab_info_ptr)
             ELSE s
    ELSE s

\* Variant: the slab is declared full while one object is still free.
slab_became_full_early(s, free_slab_info_ptr) ==
    Len(s.slab_infos[free_slab_info_ptr].free_objects_list) <= 1

\* Slab became empty?  if free_slab_info_data.free_objects_list.is_empty()
slab_became_full(s, free_slab_info_ptr) ==
    s.slab_infos[free_slab_info_ptr].free_objects_list = <<>>

\* Variant: full_slabs_number is not incremented.
move_to_full_uncounted(s) ==
    [s EXCEPT !.free_slabs_list = pop_front(@),
              !.statistics.free_slabs_number = @ - 1,
              !.full_slabs_list = push_back(@, front(s.free_slabs_list))]

\* Lines 236-240: move the front free slab to the full list.
move_to_full(s) ==
    [s EXCEPT !.free_slabs_list = pop_front(@),
              !.statistics.free_slabs_number = @ - 1,
              !.full_slabs_list = push_back(@, front(s.free_slabs_list)),
              !.statistics.full_slabs_number = @ + 1]

\* Variant: the allocation is not counted.
count_allocated_never(s) == s

\* Variant: the allocated-object statistic is incremented by 2.
count_allocated_twice(s) == [s EXCEPT !.statistics.allocated_objects_number = @ + 2]

\* self.statistics.allocated_objects_number += 1
count_allocated(s) == [s EXCEPT !.statistics.allocated_objects_number = @ + 1]

\* Lines 200-245: returns the state and the pointer alloc returns.
allocate_object(s) ==
    IF s.free_slabs_list = <<>>
    THEN [s |-> Abort(s, "panic"), ret |-> NULL]
    ELSE LET free_slab_info_ptr == front(s.free_slabs_list)
         IN  IF free_slab_info_ptr \notin DOMAIN s.slab_infos
             THEN [s |-> Abort(s, "ub"), ret |-> NULL]
             ELSE IF s.slab_infos[free_slab_info_ptr].free_objects_list = <<>>
             THEN [s |-> Abort(s, "panic"), ret |-> NULL]
             ELSE LET free_object_ptr == back(s.slab_infos[free_slab_info_ptr].free_objects_list)
                      s1 == take_object(s, free_slab_info_ptr)
                      s2 == save_slab_info(s1, free_slab_info_ptr, free_object_ptr)
                      s3 == IF slab_became_full(s2, free_slab_info_ptr)
                            THEN move_to_full(s2)
                            ELSE s2
                  IN  IF s2.fault # "none"
                      THEN [s |-> s2, ret |-> NULL]
                      ELSE [s |-> count_allocated(s3), ret |-> free_object_ptr]

\* pub unsafe fn alloc(&mut self) -> *mut T
alloc(s, slab_ret, info_ret) ==
    IF need_new_slab(s)
    THEN LET a == acquire_slab(s, slab_ret, info_ret)
         IN  IF a.null \/ a.s.fault # "none"
             THEN [s |-> a.s, ret |-> NULL]
             ELSE allocate_object(a.s)
    ELSE allocate_object(s)

\* ------------------------------------------------------------ Cache::free
\* Lines 258-284: the slab address and the SlabInfo address of an object.
locate_slab(s, object_ptr) ==
    IF object_size_type = Small /\ slab_size = page_size
    THEN LET slab_addr == align_down(object_ptr, page_size)
             slab_info_addr ==
                 calculate_slab_info_addr_in_small_object_cache(slab_addr, slab_size)
         IN  IF slab_addr = 0 \/ slab_info_addr = 0
                \/ slab_info_addr % AlignOfSlabInfo # 0
             THEN [s |-> Abort(s, "panic"), slab_addr |-> slab_addr,
                   slab_info_addr |-> slab_info_addr]
             ELSE [s |-> s, slab_addr |-> slab_addr, slab_info_addr |-> slab_info_addr]
    ELSE LET object_page_addr == align_down(object_ptr, page_size)
             slab_info_ptr == saved_slab_info(s, object_page_addr)
             s1 == get_slab_info_addr(s, object_page_addr)
         IN  IF slab_info_ptr = NULL \/ slab_info_ptr % AlignOfSlabInfo # 0
             THEN [s |-> Abort(s1, "panic"), slab_addr |-> NULL,
                   slab_info_addr |-> slab_info_ptr]
             ELSE IF slab_info_ptr \notin DOMAIN s.slab_infos
             THEN [s |-> Abort(s1, "ub"), slab_addr |-> NULL,
                   slab_info_addr |-> slab_info_ptr]
             ELSE IF s.slab_infos[slab_info_ptr].slab_ptr = NULL
             THEN [s |-> Abort(s1, "panic"), slab_addr |-> NULL,
                   slab_info_addr |-> slab_info_ptr]
             ELSE [s |-> s1, slab_addr |-> s.slab_infos[slab_info_ptr].slab_ptr,
                   slab_info_addr |-> slab_info_ptr]

\* Variant: the object joins the slab's list but the slab's count stays.
return_object_uncounted_in_slab(s, slab_info_ptr, object_ptr) ==
    [s EXCEPT !.slab_infos[slab_info_ptr].free_objects_list = push_back(@, object_ptr),
              !.statistics.free_objects_number = @ + 1,
              !.statistics.allocated_objects_number = @ - 1]

\* Lines 299-305: add the object to the slab's free list.
return_object(s, slab_info_ptr, object_ptr) ==
    [s EXCEPT !.slab_infos[slab_info_ptr].free_objects_list = push_back(@, object_ptr),
              !.slab_infos[slab_info_ptr].free_objects_number = @ + 1,
              !.statistics.free_objects_number = @ + 1,
              !.statistics.allocated_objects_number = @ - 1]

\* Variant: a slab with a single object is not moved to the free list.
slab_became_free_with_several(s, slab_info_ptr) ==
    s.slab_infos[slab_info_ptr].free_objects_number = 1 /\ objects_per_slab > 1

\* Slab became free? (full -> free)
slab_became_free(s, slab_info_ptr) ==
    s.slab_infos[slab_info_ptr].free_objects_number = 1

\* Variant: the slab changes lists but the statistics are not updated.
move_to_free_uncounted(s, slab_info_ptr) ==
    IF ~InList(s.full_slabs_list, slab_info_ptr)
    THEN Abort(s, "ub")
    ELSE [s EXCEPT !.full_slabs_list = remove(@, slab_info_ptr),
                   !.free_slabs_list = push_front(@, slab_info_ptr)]

\* Variant: the slab goes to the back of the free list.
move_to_free_at_back(s, slab_info_ptr) ==
    IF ~InList(s.full_slabs_list, slab_info_ptr)
    THEN Abort(s, "ub")
    ELSE [s EXCEPT !.full_slabs_list = remove(@, slab_info_ptr),
                   !.statistics.full_slabs_number = @ - 1,
                   !.free_slabs_list = push_back(@, slab_info_ptr),
                   !.statistics.free_slabs_number = @ + 1]

\* Lines 309-318: move the slab from the full list to the front of the
\* free list.
move_to_free(s, slab_info_ptr) ==
    IF ~InList(s.full_slabs_list, slab_info_ptr)
    THEN Abort(s, "ub")
    ELSE [s EXCEPT !.full_slabs_list = remove(@, slab_info_ptr),
                   !.statistics.full_slabs_number = @ - 1,
                   !.free_slabs_list = push_front(@, slab_info_ptr),
                   !.statistics.free_slabs_number = @ + 1]

\* Variant: the comparison can never succeed.
slab_became_empty_never(s, slab_info_ptr) ==
    s.slab_infos[slab_info_ptr].free_objects_number > objects_per_slab

\* List becomes empty?  free_objects_number == self.objects_per_slab
slab_became_empty(s, slab_info_ptr) ==
    s.slab_infos[slab_info_ptr].free_objects_number = objects_per_slab

\* Variant: only the slab's first page is forgotten.
delete_pages_first_only(s, slab_addr, i) ==
    delete_slab_info_addr(s, slab_addr + (i * page_size))

\* Variant: the SlabInfo storage of a large-object slab is never given back.
release_slab_info_skipped(s, slab_info_ptr) == s

\* Lines 337-340: a large-object cache gives the SlabInfo storage back.
release_slab_info(s, slab_info_ptr) ==
    IF object_size_type = Large
    THEN free_slab_info(s, slab_info_ptr)
    ELSE s

\* Variant: the loop runs one page past the end of the slab.
RECURSIVE delete_pages_one_more(_, _, _)
delete_pages_one_more(s, slab_addr, i) ==
    IF i > slab_size \div page_size
    THEN s
    ELSE delete_pages_one_more(delete_slab_info_addr(s, slab_addr + (i * page_size)),
                               slab_addr, i + 1)

\* for i in 0..(slab_size / page_size) { delete_slab_info_addr(...) }
RECURSIVE delete_pages(_, _, _)
delete_pages(s, slab_addr, i) ==
    IF i >= slab_size \div page_size
    THEN s
    ELSE delete_pages(delete_slab_info_addr(s, slab_addr + (i * page_size)),
                      slab_addr, i + 1)

\* Variant: the slab is dropped from the cache but never passed to free_slab.
reclaim_slab_leaking(s, slab_addr, slab_info_ptr) ==
    IF ~InList(s.free_slabs_list, slab_info_ptr)
    THEN Abort(s, "ub")
    ELSE LET s1 == [s EXCEPT !.free_slabs_list = remove(@, slab_info_ptr),
                             !.statistics.free_slabs_number = @ - 1,
                             !.statistics.free_objects_number = @ - objects_per_slab,
                             !.slab_infos = [a \in (DOMAIN @) \ {slab_info_ptr} |-> @[a]]]
         IN  IF ~(object_size_type = Small /\ slab_size = page_size)
             THEN LET s3 == release_slab_info(s1, slab_info_ptr)
                  IN  IF s3.fault # "none" THEN s3 ELSE delete_pages(s3, slab_addr, 0)
             ELSE s1

\* Variant: free_slab is handed the SlabInfo address instead of the slab's.
reclaim_slab_wrong_ptr(s, slab_addr, slab_info_ptr) ==
    IF ~InList(s.free_slabs_list, slab_info_ptr)
    THEN Abort(s, "ub")
    ELSE LET s1 == [s EXCEPT !.free_slabs_list = remove(@, slab_info_ptr),
                             !.statistics.free_slabs_number = @ - 1,
                             !.statistics.free_objects_number = @ - objects_per_slab,
                             !.slab_infos = [a \in (DOMAIN @) \ {slab_info_ptr} |-> @[a]]]
             s2 == free_slab(s1, slab_info_ptr, slab_size, page_size)
         IN  IF s2.fault # "none"
             THEN s2
             ELSE IF ~(object_size_type = Small /\ slab_size = page_size)
             THEN LET s3 == release_slab_info(s2, slab_info_ptr)
                  IN  IF s3.fault # "none" THEN s3 ELSE delete_pages(s3, slab_addr, 0)
             ELSE s2

\* Variant: the page associations are deleted before the SlabInfo storage
\* is given back.
reclaim_slab_delete_first(s, slab_addr, slab_info_ptr) ==
    IF ~InList(s.free_slabs_list, slab_info_ptr)
    THEN Abort(s, "ub")
    ELSE LET s1 == [s EXCEPT !.free_slabs_list = remove(@, slab_info_ptr),
                             !.statistics.free_slabs_number = @ - 1,
                             !.statistics.free_objects_number = @ - objects_per_slab,
                             !.slab_infos = [a \in (DOMAIN @) \ {slab_info_ptr} |-> @[a]]]
             s2 == free_slab(s1, slab_addr, slab_size, page_size)
         IN  IF s2.fault # "none"
             THEN s2
             ELSE IF ~(object_size_type = Small /\ slab_size = page_size)
             THEN release_slab_info(delete_pages(s2, slab_addr, 0), slab_info_ptr)
             ELSE s2

\* Lines 323-345: take the slab out of the free list and give it back.
reclaim_slab(s, slab_addr, slab_info_ptr) ==
    IF ~InList(s.free_slabs_list, slab_info_ptr)
    THEN Abort(s, "ub")
    ELSE LET s1 == [s EXCEPT !.free_slabs_list = remove(@, slab_info_ptr),
                             !.statistics.free_slabs_number = @ - 1,
                             !.statistics.free_objects_number = @ - objects_per_slab,
                             !.slab_infos = [a \in (DOMAIN @) \ {slab_info_ptr} |-> @[a]]]
             s2 == free_slab(s1, slab_addr, slab_size, page_size)
         IN  IF s2.fault # "none"
             THEN s2
             ELSE IF ~(object_size_type = Small /\ slab_size = page_size)
             THEN LET s3 == release_slab_info(s2, slab_info_ptr)
                  IN  IF s3.fault # "none" THEN s3 ELSE delete_pages(s3, slab_addr, 0)
             ELSE s2

\* Variant: the back-pointer of the SlabInfo is not looked at.
object_belongs_to_cache_unverified(s, slab_info_ptr) == TRUE

\* Line 296: assert_eq!(cache_ptr, self), "try free an invalid address".
object_belongs_to_cache(s, slab_info_ptr) ==
    s.slab_infos[slab_info_ptr].cache_ptr = SelfPtr

\* Line 297: assert_ne!(free_objects_number, objects_per_slab), "no
\* allocated objects in this slab ... invalid address or double free".
slab_has_allocated_objects(s, slab_info_ptr) ==
    s.slab_infos[slab_info_ptr].free_objects_number # objects_per_slab

\* pub unsafe fn free(&mut self, object_ptr: *mut T)
free(s, object_ptr) ==
    IF object_ptr = NULL \/ object_ptr % object_align # 0
    THEN Abort(s, "panic")
    ELSE LET l == locate_slab(s, object_ptr)
             slab_info_ptr == l.slab_info_addr
         IN  IF l.s.fault # "none"
             THEN l.s
             ELSE IF slab_info_ptr \notin DOMAIN l.s.slab_infos
             THEN Abort(l.s, "ub")
             ELSE IF ~object_belongs_to_cache(l.s, slab_info_ptr)
                     \/ ~slab_has_allocated_objects(l.s, slab_info_ptr)
             THEN Abort(l.s, "panic")
             ELSE LET s1 == return_object(l.s, slab_info_ptr, object_ptr)
                      s2 == IF slab_became_free(s1, slab_info_ptr)
                            THEN move_to_free(s1, slab_info_ptr)
                            ELSE s1
                  IN  IF s2.fault # "none"
                      THEN s2
                      ELSE IF slab_became_empty(s2, slab_info_ptr)
                      THEN reclaim_slab(s2, l.slab_addr, slab_info_ptr)
                      ELSE s2

\* ---------------------------------------------------------- specification
\* Arithmetic on the usize statistics panics when it would go below 0.
checked(s) ==
    IF \/ s.statistics.free_slabs_number < 0
       \/ s.statistics.full_slabs_number < 0
       \/ s.statistics.free_objects_number < 0
       \/ s.statistics.allocated_objects_number < 0
    THEN Abort(s, "panic")
    ELSE s

Install(s) ==
    /\ free_slabs_list' = s.free_slabs_list
    /\ full_slabs_list' = s.full_slabs_list
    /\ statistics' = s.statistics
    /\ slab_infos' = s.slab_infos
    /\ allocated_slab_addrs' = s.allocated_slab_addrs
    /\ allocated_slab_info_addrs' = s.allocated_slab_info_addrs
    /\ ht_saved_slab_infos' = s.ht_saved_slab_infos
    /\ backend_calls' = s.calls
    /\ fault' = s.fault

InitWith(configs) ==
    /\ \E c \in configs :
         LET r == new(c.slab_size, c.page_size, c.object_size_type,
                      c.object_size, c.object_align)
         IN  /\ r.ok
             /\ object_size = c.object_size
             /\ slab_size = c.slab_size
             /\ page_size = c.page_size
             /\ object_size_type = c.object_size_type
             /\ object_align = c.object_align
             /\ objects_per_slab = r.objects_per_slab
    /\ free_slabs_list = <<>>
    /\ full_slabs_list = <<>>
    /\ statistics = [ free_slabs_number |-> 0, full_slabs_number |-> 0,
                      free_objects_number |-> 0, allocated_objects_number |-> 0 ]
    /\ slab_infos = <<>>
    /\ allocated_slab_addrs = {}
    /\ allocated_slab_info_addrs = {}
    /\ ht_saved_slab_infos = <<>>
    /\ allocated_ptrs = {}
    /\ last_call = [op |-> "new", arg |-> NULL, ret |-> NULL]
    /\ backend_calls = <<>>
    /\ fault = "none"
    /\ mutex = NoClient
    /\ client_ptrs = [c \in Clients |-> {}]
    /\ pc = At(Idle)
    /\ loop_index = 0
    /\ slab_lock = FALSE

Init == InitWith(ConfigInputs)

\* The answers the backend can give to the calls alloc makes in state s:
\* alloc_slab is called when a new slab is needed, alloc_slab_info (Large)
\* when that call succeeded.  A call that is not made has no answer (NULL).
AllocSlabAnswers(s) ==
    IF need_new_slab(s) THEN AllocSlabOutcomes ELSE {NULL}

AllocSlabInfoAnswers(s, slab_ret) ==
    IF need_new_slab(s) /\ ~alloc_slab_failed(slab_ret) /\ object_size_type = Large
    THEN AllocSlabInfoOutcomes
    ELSE {NULL}

\* A call of alloc; the backend answers as it can.
AllocCall ==
    /\ fault = "none"
    /\ \E slab_ret \in AllocSlabAnswers(Cur) :
       \E info_ret \in AllocSlabInfoAnswers(Cur, slab_ret) :
         LET r == alloc(Cur, slab_ret, info_ret)
             s == checked(r.s)
         IN  /\ Install(s)
             /\ last_call' = [op |-> "alloc", arg |-> NULL, ret |-> r.ret]
             /\ allocated_ptrs' = IF r.ret # NULL /\ s.fault = "none"
                                  THEN allocated_ptrs \cup {r.ret}
                                  ELSE allocated_ptrs
    /\ UNCHANGED config_vars

\* A client calls alloc.
Alloc == AllocCall /\ UNCHANGED <<client_vars, step_vars>>

\* A call of free with one of the objects ptrs.
FreeCall(ptrs) ==
    /\ fault = "none"
    /\ \E object_ptr \in ptrs :
         LET s == checked(free(Cur, object_ptr))
         IN  /\ Install(s)
             /\ last_call' = [op |-> "free", arg |-> object_ptr, ret |-> NULL]
             /\ allocated_ptrs' = IF s.fault = "none"
                                  THEN allocated_ptrs \ {object_ptr}
                                  ELSE allocated_ptrs
    /\ UNCHANGED config_vars

\* A client frees an object it got from this cache and still holds.
Free == FreeCall(allocated_ptrs) /\ UNCHANGED <<client_vars, step_vars>>

Next == Alloc \/ Free

Spec == Init /\ [][Next]_vars

\* ------------------------------------------------- notions used by claims
\* The slab region an address lies in (NULL if in none).
SlabOf(addr) ==
    IF \E b \in SlabRegions : b <= addr /\ addr < b + slab_size
    THEN CHOOSE b \in SlabRegions : b <= addr /\ addr < b + slab_size
    ELSE NULL

\* The SlabInfo records that are live in memory.
HeldSlabInfos == DOMAIN slab_infos

\* How often x occurs in a list.
Occurrences(list, x) == Cardinality({i \in 1..Len(list) : list[i] = x})

\* Sum of the free counts of the slabs of a list.
RECURSIVE SumFreeCounts(_)
SumFreeCounts(list) ==
    IF list = <<>> THEN 0
    ELSE (IF Head(list) \in HeldSlabInfos
          THEN slab_infos[Head(list)].free_objects_number ELSE 0)
         + SumFreeCounts(Tail(list))

\* The backend calls of a given name made by the last call.
CallsOf(calls, fn) == {i \in 1..Len(calls) : calls[i].fn = fn}

\* Some free slab holds a free object (evaluated in the state before a call).
HasFreeObject ==
    \E a \in HeldSlabInfos : slab_infos[a].free_objects_number >= 1

\* The objects currently allocated from the slab at slab_addr.
AllocatedIn(slab_addr) == {p \in allocated_ptrs : SlabOf(p) = slab_addr}

TypeOK ==
    /\ fault \in {"none", "panic", "ub"}
    /\ statistics.free_slabs_number \in Nat
    /\ allocated_ptrs \subseteq Nat

\* ---------------------------------------------------------------- claims

\* C1: an alloc that returns a non-null pointer never returns one that is
\* still allocated (returned earlier and not freed since), so the
\* outstanding pointers are pairwise distinct.
C1_AllocReturnsUnallocated ==
    [][(last_call'.op = "alloc" /\ last_call'.ret # NULL)
         => /\ fault' = "none"
            /\ last_call'.ret \notin allocated_ptrs
            /\ allocated_ptrs' = allocated_ptrs \cup {last_call'.ret}]_vars

\* C1 witness: an alloc returned an object of a slab that still has other
\* allocated objects, while a second slab is full.
C1_Witness ==
    /\ last_call.op = "alloc" /\ last_call.ret # NULL
    /\ Cardinality(AllocatedIn(SlabOf(last_call.ret))) >= 2
    /\ Len(full_slabs_list) >= 1
    /\ Len(free_slabs_list) >= 1

\* C2: every pointer alloc returns, and every pointer still allocated, is
\* slab_base + i * object_size of a slab held from the backend with
\* 0 <= i < objects_per_slab; the object ends inside the slab and, for
\* Small, not above the embedded SlabInfo.
InSlabAtOffset(p) ==
    \E b \in allocated_slab_addrs, i \in 0..(objects_per_slab - 1) :
        /\ p = b + i * object_size
        /\ p + object_size <= b + slab_size
        /\ object_size_type = Small =>
             p + object_size <= calculate_slab_info_addr_in_small_object_cache(b, slab_size)

C2_PointersInsideHeldSlabs ==
    /\ (last_call.op = "alloc" /\ last_call.ret # NULL) => InSlabAtOffset(last_call.ret)
    /\ \A p \in allocated_ptrs : InSlabAtOffset(p)

\* C2 witness: alloc returned the highest slot of a Small slab with several
\* objects, the one next to the embedded SlabInfo.
C2_Witness ==
    /\ last_call.op = "alloc" /\ last_call.ret # NULL
    /\ object_size_type = Small /\ objects_per_slab >= 2
    /\ last_call.ret = SlabOf(last_call.ret) + (objects_per_slab - 1) * object_size

\* C3: after every completed alloc or free the statistics agree with the
\* lists: free objects = sum of the free counts of the free slabs, free
\* slabs = length of the free list, full slabs = length of the full list.
C3_StatisticsMatchLists ==
    /\ fault = "none"
    /\ statistics.free_objects_number = SumFreeCounts(free_slabs_list)
    /\ statistics.free_slabs_number = Len(free_slabs_list)
    /\ statistics.full_slabs_number = Len(full_slabs_list)

\* C3 witness: after a free, a free slab with several free objects and a
\* full slab exist together.
C3_Witness ==
    /\ last_call.op = "free"
    /\ Len(free_slabs_list) >= 1 /\ Len(full_slabs_list) >= 1
    /\ statistics.free_objects_number >= 2

\* C4: allocated_objects_number is the number of objects returned by alloc
\* and not freed yet, and an alloc that returns null leaves it unchanged.
C4_AllocatedObjectsNumber ==
    /\ [](fault = "none"
          /\ statistics.allocated_objects_number = Cardinality(allocated_ptrs))
    /\ [][(last_call'.op = "alloc" /\ last_call'.ret = NULL)
            => statistics'.allocated_objects_number
                 = statistics.allocated_objects_number]_vars

\* C4 witness: an alloc failed while objects were allocated.
C4_Witness ==
    /\ last_call.op = "alloc" /\ last_call.ret = NULL
    /\ statistics.allocated_objects_number >= 2

\* C5: once every allocated object has been freed again, in whatever order,
\* both slab lists are empty, the four statistics are 0 and the backend
\* holds no slab of this cache; no slab is released twice (free_slab on a
\* slab the backend does not hold aborts).
C5_RoundTrip ==
    /\ fault = "none"
    /\ allocated_ptrs = {} =>
         /\ free_slabs_list = <<>> /\ full_slabs_list = <<>>
         /\ statistics = [ free_slabs_number |-> 0, full_slabs_number |-> 0,
                           free_objects_number |-> 0, allocated_objects_number |-> 0 ]
         /\ allocated_slab_addrs = {}
         /\ HeldSlabInfos = {}

\* C5 witness: the free of the last allocated object, which released the
\* last slab.
C5_Witness ==
    /\ last_call.op = "free"
    /\ allocated_ptrs = {}
    /\ CallsOf(backend_calls, "free_slab") # {}
    /\ objects_per_slab >= 2

\* C6: between operations every slab the cache holds is in exactly one of
\* the two lists, in the full list iff it has no free object and in the
\* free list iff it has at least one; the lists hold nothing else and every
\* slab held from the backend has exactly one SlabInfo.
C6_ListMembershipMatchesFreeCount ==
    /\ fault = "none"
    /\ \A a \in HeldSlabInfos :
         /\ Occurrences(free_slabs_list, a) + Occurrences(full_slabs_list, a) = 1
         /\ InList(full_slabs_list, a) <=> slab_infos[a].free_objects_number = 0
         /\ InList(free_slabs_list, a) <=> slab_infos[a].free_objects_number >= 1
         /\ slab_infos[a].free_objects_number = Len(slab_infos[a].free_objects_list)
    /\ \A i \in 1..Len(free_slabs_list) : free_slabs_list[i] \in HeldSlabInfos
    /\ \A i \in 1..Len(full_slabs_list) : full_slabs_list[i] \in HeldSlabInfos
    /\ \A b \in allocated_slab_addrs :
         Cardinality({a \in HeldSlabInfos : slab_infos[a].slab_ptr = b}) = 1

\* C6 witness: a free took an object of a full slab; that slab now has one
\* free object and sits in the free list while another slab is full.
C6_Witness ==
    /\ last_call.op = "free"
    /\ objects_per_slab >= 2
    /\ free_slabs_list # <<>>
    /\ slab_infos[free_slabs_list[1]].slab_ptr = SlabOf(last_call.arg)
    /\ slab_infos[free_slabs_list[1]].free_objects_number = 1
    /\ Len(full_slabs_list) >= 1

\* C7: the free that returns the last allocated object of a slab takes the
\* slab out of the cache and passes it to free_slab (once, with the cache's
\* sizes) in that same call; so between operations no held slab is without
\* an allocated object, and the number of slabs held from the backend is
\* free_slabs_number + full_slabs_number.
C7_EmptySlabReclaimedAtOnce ==
    /\ fault = "none"
    /\ (last_call.op = "free" /\ AllocatedIn(SlabOf(last_call.arg)) = {}) =>
         /\ Cardinality(CallsOf(backend_calls, "free_slab")) = 1
         /\ \A i \in CallsOf(backend_calls, "free_slab") :
              backend_calls[i].args = <<SlabOf(last_call.arg), slab_size, page_size>>
         /\ SlabOf(last_call.arg) \notin allocated_slab_addrs
         /\ \A a \in HeldSlabInfos : slab_infos[a].slab_ptr # SlabOf(last_call.arg)
    /\ (last_call.op = "free" /\ AllocatedIn(SlabOf(last_call.arg)) # {}) =>
         CallsOf(backend_calls, "free_slab") = {}
    /\ \A a \in HeldSlabInfos :
         /\ slab_infos[a].free_objects_number < objects_per_slab
         /\ AllocatedIn(slab_infos[a].slab_ptr) # {}
    /\ \A b \in allocated_slab_addrs : AllocatedIn(b) # {}
    /\ Cardinality(allocated_slab_addrs)
         = statistics.free_slabs_number + statistics.full_slabs_number

\* C7 witness: a free emptied a slab of several objects and released it
\* while another slab stays held.
C7_Witness ==
    /\ last_call.op = "free"
    /\ objects_per_slab >= 2
    /\ AllocatedIn(SlabOf(last_call.arg)) = {}
    /\ CallsOf(backend_calls, "free_slab") # {}
    /\ allocated_slab_addrs # {}

\* C8: alloc calls alloc_slab exactly when no slab with a free object is in
\* the cache at call time, and then once; when such a slab exists alloc
\* makes no alloc_slab call, the set of held slabs stays the same and the
\* object comes from a slab held before the call.
C8_AllocSlabOnlyWhenNoFreeObject ==
    [][last_call'.op = "alloc"
         => /\ fault' = "none"
            /\ Cardinality(CallsOf(backend_calls', "alloc_slab"))
                 = (IF HasFreeObject THEN 0 ELSE 1)
            /\ HasFreeObject =>
                 /\ allocated_slab_addrs' = allocated_slab_addrs
                 /\ last_call'.ret # NULL
                 /\ SlabOf(last_call'.ret) \in allocated_slab_addrs]_vars

\* C8 witness: alloc was served from an existing slab without any backend
\* slab request although the backend still had a region to give.
C8_Witness ==
    /\ last_call.op = "alloc" /\ last_call.ret # NULL
    /\ CallsOf(backend_calls, "alloc_slab") = {}
    /\ SlabRegions \ allocated_slab_addrs # {}
    /\ Len(full_slabs_list) >= 1

\* C9: alloc returns null exactly when alloc_slab returned null in that
\* call or (Large only) alloc_slab_info returned null in that call; a Small
\* cache never calls alloc_slab_info; alloc does not fail while a slab with
\* a free object exists.
BackendReturnedNull(calls) ==
    \E i \in 1..Len(calls) :
        /\ calls[i].fn \in {"alloc_slab", "alloc_slab_info"}
        /\ calls[i].ret = NULL

C9_NullOnlyOnBackendFailure ==
    [][last_call'.op = "alloc"
         => /\ fault' = "none"
            /\ (last_call'.ret = NULL) <=> BackendReturnedNull(backend_calls')
            /\ object_size_type = Small => CallsOf(backend_calls', "alloc_slab_info") = {}
            /\ HasFreeObject => last_call'.ret # NULL]_vars

\* C9 witness: a Large alloc returned null because alloc_slab_info failed
\* after alloc_slab had succeeded.
C9_Witness ==
    /\ last_call.op = "alloc" /\ last_call.ret = NULL
    /\ object_size_type = Large
    /\ Len(backend_calls) >= 2
    /\ backend_calls[1].fn = "alloc_slab" /\ backend_calls[1].ret # NULL
    /\ backend_calls[2].fn = "alloc_slab_info" /\ backend_calls[2].ret = NULL

\* C10: when alloc_slab returns null, alloc returns null, the slab lists,
\* every slab's free count and free-object list, the four statistics and
\* the backend's state are as before the call, and alloc_slab is the only
\* backend call of that invocation.
C10_AllocSlabFailureChangesNothing ==
    [][(/\ last_call'.op = "alloc"
        /\ \E i \in CallsOf(backend_calls', "alloc_slab") : backend_calls'[i].ret = NULL)
         => /\ fault' = "none"
            /\ last_call'.ret = NULL
            /\ UNCHANGED <<cache_vars, backend_vars, allocated_ptrs>>
            /\ Len(backend_calls') = 1]_vars

\* C10 witness: alloc_slab failed in a Large cache that holds full slabs,
\* although the backend still had a region to give.
C10_Witness ==
    /\ last_call.op = "alloc" /\ last_call.ret = NULL
    /\ object_size_type = Large
    /\ backend_calls = <<Call("alloc_slab", <<slab_size, page_size>>, NULL)>>
    /\ Len(full_slabs_list) >= 1
    /\ SlabRegions \ allocated_slab_addrs # {}

\* C11: in a Large cache, when alloc_slab gives a slab and alloc_slab_info
\* then returns null, alloc returns null, free_slab is called exactly once,
\* with the slab pointer alloc_slab has just returned and the cache's
\* slab_size and page_size, and the lists, the statistics, the saved page
\* associations and what the backend holds are as before the call.
AllocSlabInfoFailedAfterSlab(calls) ==
    /\ Len(calls) >= 2
    /\ calls[1].fn = "alloc_slab" /\ calls[1].ret # NULL
    /\ calls[2].fn = "alloc_slab_info" /\ calls[2].ret = NULL

C11_SlabInfoFailureRollsBack ==
    [][(/\ last_call'.op = "alloc"
        /\ object_size_type = Large
        /\ AllocSlabInfoFailedAfterSlab(backend_calls'))
         => /\ fault' = "none"
            /\ last_call'.ret = NULL
            /\ backend_calls' =
                 << Call("alloc_slab", <<slab_size, page_size>>, backend_calls'[1].ret),
                    Call("alloc_slab_info", <<>>, NULL),
                    Call("free_slab",
                         <<backend_calls'[1].ret, slab_size, page_size>>, NULL) >>
            /\ backend_calls'[1].ret \notin allocated_slab_addrs
            /\ UNCHANGED <<cache_vars, backend_vars, allocated_ptrs>>]_vars

\* C11 witness: the rollback happened in a Large cache that holds a full
\* slab with saved page associations, and the slab given back is free again.
C11_Witness ==
    /\ last_call.op = "alloc" /\ last_call.ret = NULL
    /\ object_size_type = Large
    /\ AllocSlabInfoFailedAfterSlab(backend_calls)
    /\ Len(backend_calls) = 3 /\ backend_calls[3].fn = "free_slab"
    /\ backend_calls[3].args[1] \notin allocated_slab_addrs
    /\ Len(full_slabs_list) >= 1
    /\ DOMAIN ht_saved_slab_infos # {}

\* The cache computes the SlabInfo address instead of asking the backend.
SlabInfoAddrComputed == object_size_type = Small /\ slab_size = page_size

\* The SlabInfo record of the held slab with base slab_addr (NULL if none).
SlabInfoOf(slab_addr) ==
    IF \E a \in HeldSlabInfos : slab_infos[a].slab_ptr = slab_addr
    THEN CHOOSE a \in HeldSlabInfos : slab_infos[a].slab_ptr = slab_addr
    ELSE NULL

\* C12: in every configuration other than Small with slab_size = page_size,
\* for every allocated object the backend holds a saved association for the
\* page floor(object address, page_size) and it is the SlabInfo of the slab
\* that contains the object; so the get_slab_info_addr call of a free of an
\* allocated object never misses and returns that slab's SlabInfo.
C12_AllocatedObjectsHaveAssociation ==
    /\ [](~SlabInfoAddrComputed =>
            \A p \in allocated_ptrs :
                LET page == align_down(p, page_size)
                IN  /\ page \in DOMAIN ht_saved_slab_infos
                    /\ ht_saved_slab_infos[page] \in HeldSlabInfos
                    /\ slab_infos[ht_saved_slab_infos[page]].slab_ptr = SlabOf(p))
    /\ [][(last_call'.op = "free" /\ ~SlabInfoAddrComputed)
            => /\ fault' = "none"
               /\ Cardinality(CallsOf(backend_calls', "get_slab_info_addr")) = 1
               /\ backend_calls'[1] =
                    Call("get_slab_info_addr",
                         <<align_down(last_call'.arg, page_size)>>,
                         SlabInfoOf(SlabOf(last_call'.arg)))
               /\ backend_calls'[1].ret # NULL]_vars

\* C12 witness: in a one-page Large slab, where only the first allocation
\* saves the association, a free has just looked the slab up for one object
\* while another object of the slab stays allocated.
C12_Witness ==
    /\ object_size_type = Large /\ slab_size = page_size
    /\ last_call.op = "free"
    /\ backend_calls = <<Call("get_slab_info_addr",
                              <<align_down(last_call.arg, page_size)>>,
                              SlabInfoOf(SlabOf(last_call.arg)))>>
    /\ objects_per_slab >= 2
    /\ AllocatedIn(SlabOf(last_call.arg)) # {}

\* The arguments of the calls of one backend operation, in call order.
ArgsOf(calls, fn) ==
    LET sel == SelectSeq(calls, LAMBDA c : c.fn = fn)
    IN  [i \in 1..Len(sel) |-> sel[i].args]

\* The page addresses of the slab with base slab_addr, in address order.
PagesOf(slab_addr) ==
    [i \in 1..(slab_size \div page_size) |-> <<slab_addr + ((i - 1) * page_size)>>]

\* C13: in every configuration other than Small with slab_size = page_size,
\* a free that reclaims a slab calls delete_slab_info_addr once for each of
\* the slab_size / page_size page addresses slab base + i * page_size,
\* whether or not something was saved for the page; no association for a
\* page of the reclaimed slab remains, and the association table is empty
\* whenever no object is allocated.
C13_ReclaimDeletesEveryPage ==
    ~SlabInfoAddrComputed =>
        /\ (last_call.op = "free" /\ CallsOf(backend_calls, "free_slab") # {}) =>
              /\ ArgsOf(backend_calls, "delete_slab_info_addr")
                    = PagesOf(SlabOf(last_call.arg))
              /\ \A p \in DOMAIN ht_saved_slab_infos : SlabOf(p) # SlabOf(last_call.arg)
        /\ CallsOf(backend_calls, "free_slab") = {} =>
              CallsOf(backend_calls, "delete_slab_info_addr") = {}
        /\ \A p \in DOMAIN ht_saved_slab_infos : SlabOf(p) \in allocated_slab_addrs
        /\ allocated_ptrs = {} => DOMAIN ht_saved_slab_infos = {}

\* C13 witness: a two-page slab all of whose objects start in its first
\* page, so that nothing is ever saved for the second page, has just been
\* reclaimed with a delete call for both pages.
C13_Witness ==
    /\ last_call.op = "free"
    /\ CallsOf(backend_calls, "free_slab") # {}
    /\ slab_size = 2 * page_size
    /\ (objects_per_slab - 1) * object_size < page_size
    /\ objects_per_slab >= 2
    /\ ArgsOf(backend_calls, "delete_slab_info_addr")
          = << <<SlabOf(last_call.arg)>>, <<SlabOf(last_call.arg) + page_size>> >>
    /\ allocated_slab_addrs # {}

\* C14: in a Small cache with slab_size = page_size the only backend
\* operations ever invoked are alloc_slab and free_slab: no SlabInfo storage
\* is requested or released and no page association is saved, looked up or
\* deleted.
C14_OnePageSmallUsesOnlySlabCalls ==
    SlabInfoAddrComputed =>
        /\ \A i \in 1..Len(backend_calls) :
              backend_calls[i].fn \in {"alloc_slab", "free_slab"}
        /\ DOMAIN ht_saved_slab_infos = {}
        /\ allocated_slab_info_addrs = {}

\* C14 witness: a one-page Small cache that has taken slabs and objects and
\* has just reclaimed a slab through free while holding another one.
C14_Witness ==
    /\ SlabInfoAddrComputed
    /\ last_call.op = "free"
    /\ backend_calls = <<Call("free_slab", <<SlabOf(last_call.arg), slab_size, page_size>>, NULL)>>
    /\ allocated_ptrs # {}

\* The slabs alloc_slab handed out in the logged calls.
SlabsGiven(calls) ==
    {calls[i].ret : i \in {j \in CallsOf(calls, "alloc_slab") : calls[j].ret # NULL}}

\* C15: a Small cache never calls alloc_slab_info or free_slab_info; a Large
\* cache calls alloc_slab_info exactly once per slab alloc_slab gave it and
\* free_slab_info exactly once per slab free reclaims, with the pointer
\* that was allocated for that slab; between operations the SlabInfo
\* records the backend has handed out are those of the held slabs, one per
\* slab.
C15_SlabInfoStorageFollowsSlabs ==
    /\ [](object_size_type = Small =>
            /\ CallsOf(backend_calls, "alloc_slab_info") = {}
            /\ CallsOf(backend_calls, "free_slab_info") = {}
            /\ allocated_slab_info_addrs = {})
    /\ [](object_size_type = Large =>
            /\ allocated_slab_info_addrs = HeldSlabInfos
            /\ Cardinality(allocated_slab_info_addrs) = Cardinality(allocated_slab_addrs)
            /\ \A b \in allocated_slab_addrs : SlabInfoOf(b) \in allocated_slab_info_addrs)
    /\ [][object_size_type = Large =>
            /\ last_call'.op = "alloc" =>
                 /\ Cardinality(CallsOf(backend_calls', "alloc_slab_info"))
                      = Cardinality(SlabsGiven(backend_calls'))
                 /\ CallsOf(backend_calls', "free_slab_info") = {}
                 /\ \A b \in allocated_slab_addrs' \ allocated_slab_addrs :
                      \E i \in CallsOf(backend_calls', "alloc_slab_info") :
                          /\ backend_calls'[i].ret = SlabInfoOf(b)'
                          /\ backend_calls'[i].ret \notin allocated_slab_info_addrs
            /\ last_call'.op = "free" =>
                 /\ CallsOf(backend_calls', "alloc_slab_info") = {}
                 /\ ArgsOf(backend_calls', "free_slab_info")
                      = (IF CallsOf(backend_calls', "free_slab") # {}
                         THEN << <<SlabInfoOf(SlabOf(last_call'.arg))>> >>
                         ELSE << >>)]_vars

\* C15 witness: a Large cache holding two slabs, each with its own SlabInfo
\* record from the backend, has reclaimed one of them and given that slab's
\* record back; the other slab and its record are still held.
C15_Witness ==
    /\ object_size_type = Large
    /\ last_call.op = "free"
    /\ CallsOf(backend_calls, "free_slab") # {}
    /\ Cardinality(CallsOf(backend_calls, "free_slab_info")) = 1
    /\ Cardinality(allocated_slab_info_addrs) = 1
    /\ allocated_slab_info_addrs = HeldSlabInfos
    /\ \A i \in CallsOf(backend_calls, "free_slab_info") :
          backend_calls[i].args[1] \notin allocated_slab_info_addrs

\* C16: every free_slab call passes the base pointer of a slab that
\* alloc_slab returned and that has not been released since (held before
\* the operation, or given earlier in the same operation), together with
\* the cache's own slab_size and page_size; the slab is no longer held
\* afterwards, and no operation releases twice.
C16_FreeSlabOnlyHeldSlabs ==
    [][/\ fault' = "none"
       /\ Cardinality(CallsOf(backend_calls', "free_slab")) <= 1
       /\ \A i \in CallsOf(backend_calls', "free_slab") :
             /\ \/ backend_calls'[i].args[1] \in allocated_slab_addrs
                \/ \E j \in 1..(i - 1) :
                      /\ backend_calls'[j].fn = "alloc_slab"
                      /\ backend_calls'[j].ret = backend_calls'[i].args[1]
             /\ backend_calls'[i].args[1] \in SlabRegions
             /\ backend_calls'[i].args[2] = slab_size
             /\ backend_calls'[i].args[3] = page_size
             /\ backend_calls'[i].args[1] \notin allocated_slab_addrs'
             /\ allocated_slab_addrs' = allocated_slab_addrs \ {backend_calls'[i].args[1]}]_vars

\* C16 witness: a Small cache with a two-page slab held two slabs and a
\* reclaiming free has released the lower one, with the cache's sizes,
\* while the higher one stays held.
C16_Witness ==
    /\ object_size_type = Small /\ slab_size > page_size
    /\ last_call.op = "free"
    /\ \E i \in CallsOf(backend_calls, "free_slab") :
          /\ backend_calls[i].args = <<SlabOf(last_call.arg), slab_size, page_size>>
          /\ \E b \in allocated_slab_addrs : b > backend_calls[i].args[1]
    /\ Len(full_slabs_list) + Len(free_slabs_list) = 1

\* ------------------------------------------------- Cache::new as a step
\* The arguments Cache::new is called with: zero, sizes below and above
\* size_of::<SlabInfo>(), sizes that are and are not powers of two or
\* multiples of the page size, and types T given by <<size, alignment>>.
SlabSizeInputs == {0, 64, 84, 4096, 6144, 8192, 12288}
PageSizeInputs == {0, 4, 1024, 4096}
ObjectTypeInputs ==
    { <<8, 8>>, <<16, 8>>, <<20, 4>>, <<56, 8>>, <<1024, 8>>, <<2048, 8>>,
      <<4096, 4096>>, <<8192, 8>> }

\* Variant: the constructor asks the backend for a first slab right away.
new_cache_eager(s) ==
    Log([s EXCEPT !.free_slabs_list = <<>>,
                  !.full_slabs_list = <<>>,
                  !.statistics = [ free_slabs_number |-> 0, full_slabs_number |-> 0,
                                   free_objects_number |-> 0,
                                   allocated_objects_number |-> 0 ]],
        "alloc_slab", <<slab_size, page_size>>, NULL)

\* Lines 87-103: the cache Cache::new returns; the backend is moved into it
\* as it is.
new_cache(s) ==
    [s EXCEPT !.free_slabs_list = <<>>,
              !.full_slabs_list = <<>>,
              !.statistics = [ free_slabs_number |-> 0, full_slabs_number |-> 0,
                               free_objects_number |-> 0,
                               allocated_objects_number |-> 0 ]]

\* Before the call: the arguments are chosen, the backend is fresh and no
\* cache exists yet.
InitNew ==
    /\ slab_size \in SlabSizeInputs
    /\ page_size \in PageSizeInputs
    /\ object_size_type \in {Small, Large}
    /\ \E T \in ObjectTypeInputs : object_size = T[1] /\ object_align = T[2]
    /\ objects_per_slab = 0
    /\ free_slabs_list = <<>>
    /\ full_slabs_list = <<>>
    /\ statistics = [ free_slabs_number |-> 0, full_slabs_number |-> 0,
                      free_objects_number |-> 0, allocated_objects_number |-> 0 ]
    /\ slab_infos = <<>>
    /\ allocated_slab_addrs = {}
    /\ allocated_slab_info_addrs = {}
    /\ ht_saved_slab_infos = <<>>
    /\ allocated_ptrs = {}
    /\ last_call = [op |-> "none", arg |-> NULL, ret |-> NULL]
    /\ backend_calls = <<>>
    /\ fault = "none"
    /\ mutex = NoClient
    /\ client_ptrs = [c \in Clients |-> {}]
    /\ pc = At(Idle)
    /\ loop_index = 0
    /\ slab_lock = FALSE

\* pub fn new(slab_size, page_size, object_size_type, memory_backend)
New ==
    /\ last_call.op = "none"
    /\ LET r == new(slab_size, page_size, object_size_type, object_size, object_align)
           s == IF r.ok THEN new_cache(Cur)
                ELSE IF r.panicked THEN Abort(Cur, "panic")
                ELSE Cur
       IN  /\ Install(s)
           /\ objects_per_slab' = r.objects_per_slab
           /\ last_call' = [op |-> "new", arg |-> NULL, ret |-> r]
    /\ UNCHANGED <<object_size, slab_size, page_size, object_size_type, object_align,
                   allocated_ptrs, client_vars, step_vars>>

NextNew == New

SpecNew == InitNew /\ [][NextNew]_vars

\* C17: Cache::new calls no backend operation, and the cache it returns has
\* empty slab lists and all four statistics equal to 0; no slab and no
\* SlabInfo storage is held when it returns.
C17_NewTouchesNoBackend ==
    last_call.op = "new" =>
        /\ backend_calls = <<>>
        /\ allocated_slab_addrs = {} /\ allocated_slab_info_addrs = {}
        /\ DOMAIN ht_saved_slab_infos = {} /\ DOMAIN slab_infos = {}
        /\ last_call.ret.ok =>
              /\ free_slabs_list = <<>> /\ full_slabs_list = <<>>
              /\ statistics.free_slabs_number = 0
              /\ statistics.full_slabs_number = 0
              /\ statistics.free_objects_number = 0
              /\ statistics.allocated_objects_number = 0
              /\ objects_per_slab >= 1

\* C17 witness: new has returned a Large cache with two-page slabs and
\* several objects per slab.
C17_Witness ==
    /\ last_call.op = "new" /\ last_call.ret.ok
    /\ object_size_type = Large /\ slab_size = 2 * page_size
    /\ objects_per_slab >= 2

\* C18: Cache::new does not return a cache when slab_size is not a power
\* of two, whether the cache is Small or Large.
C18_NonPowerOfTwoSlabSizeRejected ==
    (last_call.op = "new" /\ ~(\E k \in 0..14 : slab_size = 2^k))
        => ~last_call.ret.ok

\* C19: Cache::new returns Err or Ok, and which one is decided by the
\* checks in this order: object_size below two pointers; (Small) slab_size
\* below size_of(SlabInfo) + object_size; slab_size not a multiple of
\* page_size; page_size not a multiple of align_of(T); no room for one
\* object.  The error reported is that of the first violated check, and
\* with no violated check the result is Ok with objects_per_slab >= 1.
C19_ChecksInOrder ==
    last_call.op = "new" =>
        LET r == last_call.ret
        IN  /\ r.ok \/ r.err # ""
            /\ IF object_size < SizeOfFreeObject
               THEN r.err = "Object size smaller than 8/16 (two pointers)"
               ELSE IF object_size_type = Small /\ slab_size < SizeOfSlabInfo + object_size
               THEN r.err = "Slab size is too small"
               ELSE IF page_size # 0 /\ slab_size % page_size # 0
               THEN r.err = "slab_size is not exactly within the page boundaries. Slab must consist of pages."
               ELSE IF page_size % object_align # 0
               THEN r.err = "Type can't be aligned"
               ELSE \/ r.err = "No memory for any object, slab size too small"
                    \/ r.ok /\ r.objects_per_slab >= 1

\* C20: Cache::new never panics: for every slab_size and page_size (zero
\* included), object size and alignment and ObjectSizeType it returns.
C20_NewNeverPanics ==
    last_call.op = "new" => (~last_call.ret.panicked /\ fault = "none")

\* C21: for every configuration Cache::new accepts, objects_per_slab *
\* object_size <= slab_size; a Large cache has floor(slab_size /
\* object_size) objects per slab; a Small cache has the largest number of
\* objects that end at or before the embedded SlabInfo, which sits at
\* slab_size - size_of(SlabInfo) rounded down to the SlabInfo alignment.
\* Small 4096/1024 gives 3 and Large 4096/56 gives 73.
C21_ObjectsPerSlab ==
    (last_call.op = "new" /\ last_call.ret.ok) =>
        LET k == objects_per_slab
            slab_info_offset ==
                (slab_size - SizeOfSlabInfo) - ((slab_size - SizeOfSlabInfo) % AlignOfSlabInfo)
        IN  /\ k = last_call.ret.objects_per_slab
            /\ k >= 1
            /\ k * object_size <= slab_size
            /\ object_size_type = Large =>
                  /\ k * object_size <= slab_size
                  /\ (k + 1) * object_size > slab_size
            /\ object_size_type = Small =>
                  /\ k * object_size <= slab_info_offset
                  /\ (k + 1) * object_size > slab_info_offset
            /\ (object_size_type = Small /\ slab_size = 4096 /\ object_size = 1024) => k = 3
            /\ (object_size_type = Large /\ slab_size = 4096 /\ object_size = 56) => k = 73

\* C21 witness: new has accepted a Small cache whose slab a whole number of
\* objects would fill exactly, so that the SlabInfo costs one object.
C21_Witness ==
    /\ last_call.op = "new" /\ last_call.ret.ok
    /\ object_size_type = Small
    /\ slab_size % object_size = 0
    /\ objects_per_slab = (slab_size \div object_size) - 1
    /\ objects_per_slab >= 2

\* The cache as N allocations in a row leave it, N being the number of
\* objects the clients hold and k = objects_per_slab: floor(N / k) full
\* slabs, one free slab iff N mod k # 0, that slab with k - (N mod k) free
\* objects, and the statistics saying the same.
FilledInOrder ==
    LET k == objects_per_slab
        N == Cardinality(allocated_ptrs)
        rest == IF N % k # 0 THEN k - (N % k) ELSE 0
    IN  /\ Len(full_slabs_list) = N \div k
        /\ Len(free_slabs_list) = (IF N % k # 0 THEN 1 ELSE 0)
        /\ \A i \in 1..Len(free_slabs_list) :
              slab_infos[free_slabs_list[i]].free_objects_number = rest
        /\ statistics.full_slabs_number = N \div k
        /\ statistics.free_slabs_number = (IF N % k # 0 THEN 1 ELSE 0)
        /\ statistics.free_objects_number = rest
        /\ statistics.allocated_objects_number = N

\* C22: after N successful allocations in a row on an empty cache, the
\* cache holds floor(N / k) full slabs and one free slab iff N mod k # 0,
\* that slab has k - (N mod k) free objects, free_objects_number is that
\* value (0 if there is none) and allocated_objects_number = N.  Stated by
\* induction on N: the empty cache has this shape, and a successful alloc
\* takes a cache of this shape to one of this shape with one object more.
C22_ConsecutiveAllocations ==
    /\ []((allocated_ptrs = {} /\ fault = "none") => FilledInOrder)
    /\ [][(FilledInOrder /\ last_call'.op = "alloc" /\ last_call'.ret # NULL)
            => /\ FilledInOrder'
               /\ Cardinality(allocated_ptrs') = Cardinality(allocated_ptrs) + 1]_vars

\* C22 witness: k + 1 allocations, k >= 2, have left one full slab and one
\* free slab with k - 1 free objects.
C22_Witness ==
    /\ FilledInOrder
    /\ last_call.op = "alloc" /\ last_call.ret # NULL
    /\ objects_per_slab >= 2
    /\ Cardinality(allocated_ptrs) = objects_per_slab + 1
    /\ Len(full_slabs_list) = 1 /\ Len(free_slabs_list) = 1
    /\ statistics.free_objects_number = objects_per_slab - 1

\* ------------------------------------------------- free called wrongly
\* Another Cache of the same configuration owns one slab, all of whose
\* objects are allocated.  Its memory lies above this cache's regions; its
\* SlabInfo is embedded (Small) or stored next to the slab (Large).
OtherCachePtr == 16
ForeignSlab == (MaxSlabs + 2) * slab_size
ForeignSlabInfo ==
    IF object_size_type = Small
    THEN calculate_slab_info_addr_in_small_object_cache(ForeignSlab, slab_size)
    ELSE ForeignSlab + slab_size
ForeignObjects == {free_object_addr(ForeignSlab, i) : i \in 0..(objects_per_slab - 1)}
ForeignPages == {ForeignSlab + (i * page_size) : i \in 0..((slab_size \div page_size) - 1)}

\* Pointers free must refuse: null, objects of the other cache and
\* addresses inside them that are not aligned for T.
UnownedPointers ==
    {NULL} \cup {p + 1 : p \in ForeignObjects} \cup ForeignObjects

\* Memory as free finds it: the other cache's SlabInfo is there to be read
\* and, when the two caches share the backend's table, so are the
\* associations of its pages.
WithOtherCache(s, shared) ==
    [s EXCEPT !.slab_infos =
                 [a \in (DOMAIN @) \cup {ForeignSlabInfo} |->
                     IF a = ForeignSlabInfo
                     THEN [ free_objects_list |-> <<>>,
                            cache_ptr |-> OtherCachePtr,
                            free_objects_number |-> 0,
                            slab_ptr |-> ForeignSlab ]
                     ELSE @[a]],
              !.ht_saved_slab_infos =
                 IF shared /\ ~(object_size_type = Small /\ slab_size = page_size)
                 THEN [p \in (DOMAIN @) \cup ForeignPages |->
                          IF p \in ForeignPages THEN ForeignSlabInfo ELSE @[p]]
                 ELSE @]

\* This cache's part of the memory and of the table.
WithoutOtherCache(s) ==
    [s EXCEPT !.slab_infos = [a \in (DOMAIN @) \ {ForeignSlabInfo} |-> @[a]],
              !.ht_saved_slab_infos = [p \in (DOMAIN @) \ ForeignPages |-> @[p]]]

\* A client frees again the object it has just freed.
DoubleFree ==
    /\ fault = "none"
    /\ last_call.op = "free"
    /\ last_call.arg \notin allocated_ptrs
    /\ LET s == checked(free(Cur, last_call.arg))
       IN  /\ Install(s)
           /\ last_call' = [op |-> "double free", arg |-> last_call.arg, ret |-> NULL]
    /\ UNCHANGED <<config_vars, allocated_ptrs, client_vars, step_vars>>

\* A client frees a pointer that is not an object of this cache.
UnownedFree ==
    /\ fault = "none"
    /\ last_call.op \in {"new", "alloc", "free"}
    /\ \E object_ptr \in UnownedPointers, shared \in BOOLEAN :
         LET s == checked(free(WithOtherCache(Cur, shared), object_ptr))
         IN  /\ Install(WithoutOtherCache(s))
             /\ last_call' = [op |-> "unowned free", arg |-> object_ptr, ret |-> NULL]
    /\ UNCHANGED <<config_vars, allocated_ptrs, client_vars, step_vars>>

\* The clients have kept to the contract of free so far; what the cache
\* does after a call that broke it is not followed.
ValidUse == last_call.op \in {"new", "alloc", "free"}

NextMisuse ==
    \/ ValidUse /\ Alloc
    \/ ValidUse /\ Free
    \/ DoubleFree
    \/ UnownedFree

SpecMisuse == Init /\ [][NextMisuse]_vars

\* C23: a free of a pointer this cache returned and that is not allocated
\* now does not complete, and leaves the slab lists, the per-slab free
\* counts and the statistics as they were, whatever the state of the slab
\* that contains the object.
C23_DoubleFreeAborts ==
    [][last_call'.op = "double free"
         => /\ fault' # "none"
            /\ UNCHANGED cache_vars]_vars

SlabInfoIn(infos, slab_addr) ==
    IF \E a \in DOMAIN infos : infos[a].slab_ptr = slab_addr
    THEN CHOOSE a \in DOMAIN infos : infos[a].slab_ptr = slab_addr
    ELSE NULL

\* The objects of the slab of object p that are allocated (evaluated in the
\* state before the alloc that returns p).
AllocatedBefore(p) == Cardinality({q \in allocated_ptrs : SlabOf(q) = SlabOf(p)})

\* The save_slab_info_addr calls of the logged calls, as they must be for
\* the returned object p when the saving is or is not skipped.
SaveCallsAre(calls, p, slab_info_ptr, skipped) ==
    ArgsOf(calls, "save_slab_info_addr")
      = (IF skipped THEN << >> ELSE << <<align_down(p, page_size), slab_info_ptr>> >>)

\* C29 as claimed: in every configuration other than Small with slab_size =
\* page_size, a successful alloc calls save_slab_info_addr(floor(object
\* address, page_size), slab_info) for the object it returns, except
\* exactly when slab_size = page_size and the slab had 2 or more allocated
\* objects before this allocation.
C29_SaveSkippedFromThirdObject ==
    [][(last_call'.op = "alloc" /\ last_call'.ret # NULL /\ ~SlabInfoAddrComputed)
         => SaveCallsAre(backend_calls', last_call'.ret, SlabInfoIn(slab_infos', SlabOf(last_call'.ret)),
                         slab_size = page_size /\ AllocatedBefore(last_call'.ret) >= 2)]_vars

\* C29 amended: ... except exactly when slab_size = page_size and the slab
\* had 1 or more allocated objects before this allocation, that is, for
\* every object but the first one taken from a slab that has allocated
\* objects.
C29_SaveSkippedFromSecondObject ==
    [][(last_call'.op = "alloc" /\ last_call'.ret # NULL /\ ~SlabInfoAddrComputed)
         => SaveCallsAre(backend_calls', last_call'.ret, SlabInfoIn(slab_infos', SlabOf(last_call'.ret)),
                         slab_size = page_size /\ AllocatedBefore(last_call'.ret) >= 1)]_vars

\* C29 witness: the second object of a one-page Large slab, its lowest
\* slot, has been handed out without a save call, the slab having had one
\* allocated object before.
C29_Witness ==
    /\ last_call.op = "alloc" /\ last_call.ret # NULL
    /\ ~SlabInfoAddrComputed /\ slab_size = page_size
    /\ backend_calls = << >>
    /\ last_call.ret = SlabOf(last_call.ret)
    /\ Cardinality(AllocatedIn(SlabOf(last_call.ret))) = 2

\* C30: in a Large cache with slab_size = page_size and objects_per_slab >=
\* 2, save_slab_info_addr is called exactly once in the lifetime of a slab,
\* by the alloc that acquires the slab and takes its first object; no
\* other alloc and no free calls it, whatever was freed in between.
C30_SavedOncePerSlab ==
    [][(object_size_type = Large /\ slab_size = page_size /\ objects_per_slab >= 2)
         => /\ fault' = "none"
            /\ Cardinality(CallsOf(backend_calls', "save_slab_info_addr"))
                 = Cardinality(allocated_slab_addrs' \ allocated_slab_addrs)
            /\ \A i \in CallsOf(backend_calls', "save_slab_info_addr") :
                  /\ last_call'.op = "alloc"
                  /\ \E b \in allocated_slab_addrs' \ allocated_slab_addrs :
                        /\ backend_calls'[i].args = <<b, SlabInfoOf(b)'>>
                        /\ AllocatedIn(b)' = {last_call'.ret}]_vars

\* C30 witness: the highest slot of a one-page Large slab, the one its
\* first alloc hands out, has been freed and handed out again while the
\* slab was held, and this alloc made no backend call.
C30_Witness ==
    /\ object_size_type = Large /\ slab_size = page_size /\ objects_per_slab >= 2
    /\ last_call.op = "alloc"
    /\ last_call.ret = free_object_addr(SlabOf(last_call.ret), objects_per_slab - 1)
    /\ backend_calls = << >>
    /\ DOMAIN ht_saved_slab_infos # {}

\* ------------------------------------------- clients behind one mutex
\* The Cache sits in a static behind one Mutex (lib.rs 537-545, tests.rs
\* 15-22): a client locks it, calls alloc and free on the guarded Cache and
\* unlocks.  mutex is the client holding the lock, client_ptrs the objects
\* each client was handed and has not freed.
ClientConfigInputs ==
    { c \in ConfigInputs : /\ c.slab_size = 4096
                           /\ c.object_size = 2048 }

InitClients == InitWith(ClientConfigInputs)

\* Mutex::lock: taken only when no client holds it.
Lock(c) ==
    /\ mutex = NoClient
    /\ mutex' = c
    /\ UNCHANGED <<config_vars, cache_vars, backend_vars, allocated_ptrs, last_call,
                   backend_calls, fault, client_ptrs, step_vars>>

\* The guard is dropped.
Unlock(c) ==
    /\ mutex = c
    /\ mutex' = NoClient
    /\ UNCHANGED <<config_vars, cache_vars, backend_vars, allocated_ptrs, last_call,
                   backend_calls, fault, client_ptrs, step_vars>>

\* The client holding the lock calls alloc and keeps what it is handed.
AllocBy(c) ==
    /\ mutex = c
    /\ AllocCall
    /\ client_ptrs' = IF last_call'.ret # NULL
                      THEN [client_ptrs EXCEPT ![c] = @ \cup {last_call'.ret}]
                      ELSE client_ptrs
    /\ UNCHANGED <<mutex, step_vars>>

\* The client holding the lock frees one of the objects it holds.
FreeBy(c) ==
    /\ mutex = c
    /\ FreeCall(client_ptrs[c])
    /\ client_ptrs' = [client_ptrs EXCEPT ![c] = @ \ {last_call'.arg}]
    /\ UNCHANGED <<mutex, step_vars>>

NextClients ==
    \E c \in Clients : Lock(c) \/ AllocBy(c) \/ FreeBy(c) \/ Unlock(c)

SpecClients == InitClients /\ [][NextClients]_vars

RECURSIVE HeldByClients(_)
HeldByClients(cs) ==
    IF cs = {} THEN 0
    ELSE LET c == CHOOSE x \in cs : TRUE
         IN  Cardinality(client_ptrs[c]) + HeldByClients(cs \ {c})

\* C26: with every call made under the one mutex, in every interleaving of
\* the clients no object is held by two clients at once, the objects the
\* clients hold are exactly the allocated ones (and as many as the
\* statistics count), no call faults, and the statistics and list
\* invariants hold after each call.
C26_SerializedClients ==
    /\ fault = "none"
    /\ \A c, d \in Clients : c # d => client_ptrs[c] \cap client_ptrs[d] = {}
    /\ UNION {client_ptrs[c] : c \in Clients} = allocated_ptrs
    /\ statistics.allocated_objects_number = HeldByClients(Clients)
    /\ statistics.free_objects_number = SumFreeCounts(free_slabs_list)
    /\ statistics.free_slabs_number = Len(free_slabs_list)
    /\ statistics.full_slabs_number = Len(full_slabs_list)
    /\ \A a \in HeldSlabInfos :
         /\ Occurrences(free_slabs_list, a) + Occurrences(full_slabs_list, a) = 1
         /\ InList(full_slabs_list, a) <=> slab_infos[a].free_objects_number = 0
         /\ slab_infos[a].free_objects_number = Len(slab_infos[a].free_objects_list)
         /\ \A i \in 1..Len(slab_infos[a].free_objects_list) :
              slab_infos[a].free_objects_list[i] \notin allocated_ptrs

\* C26 witness: the two clients hold objects of the same slab, the second
\* handed out by an alloc made while the other client held the first, and
\* the lock is held by the client that just called.
C26_Witness ==
    /\ last_call.op = "alloc" /\ last_call.ret # NULL
    /\ mutex # NoClient
    /\ last_call.ret \in client_ptrs[mutex]
    /\ \E d \in Clients \ {mutex} :
         \E q \in client_ptrs[d] : SlabOf(q) = SlabOf(last_call.ret)

\* ------------------------------------------------- order of the free list
\* The slab of object p was full before the free of p that has just
\* completed: it is held and has exactly one free object.
LeftFullList(p) ==
    /\ SlabInfoOf(SlabOf(p)) # NULL
    /\ slab_infos[SlabInfoOf(SlabOf(p))].free_objects_number = 1

\* C28: with objects_per_slab > 1, a free that releases an object of a full
\* slab (its free count becomes 1) removes the slab from the full list and
\* puts it at the front of the free list, ahead of every slab already
\* there; and the alloc that follows such a free takes its object from that
\* slab, without asking the backend for a slab.
C28_FullSlabReturnsToFront ==
    [][ /\ ( /\ last_call'.op = "free" /\ fault' = "none"
             /\ objects_per_slab > 1
             /\ SlabInfoOf(SlabOf(last_call'.arg)) # NULL
             /\ slab_infos[SlabInfoOf(SlabOf(last_call'.arg))].free_objects_number = 0 )
           => LET a == SlabInfoOf(SlabOf(last_call'.arg))
              IN  /\ InList(full_slabs_list, a)
                  /\ full_slabs_list' = remove(full_slabs_list, a)
                  /\ free_slabs_list' = <<a>> \o free_slabs_list
                  /\ slab_infos'[a].free_objects_number = 1
        /\ ( /\ last_call.op = "free" /\ fault = "none"
             /\ objects_per_slab > 1
             /\ LeftFullList(last_call.arg)
             /\ last_call'.op = "alloc" )
           => /\ last_call'.ret # NULL
              /\ SlabOf(last_call'.ret) = SlabOf(last_call.arg)
              /\ CallsOf(backend_calls', "alloc_slab") = {}
      ]_vars

\* C28 witness: a free took an object of a full slab while another slab was
\* already in the free list; the freed slab stands before it.
C28_Witness ==
    /\ last_call.op = "free" /\ fault = "none"
    /\ objects_per_slab > 1
    /\ LeftFullList(last_call.arg)
    /\ Len(free_slabs_list) >= 2
    /\ free_slabs_list[1] = SlabInfoOf(SlabOf(last_call.arg))

\* --------------------------------------------------- occupancy of slabs
\* The allocated count from which a slab counts as highly occupied:
\* floor(75 * objects_per_slab / 100) (32 objects per slab: 24).
occupacy_more_75_minimum_allocated_objects_number == (75 * objects_per_slab) \div 100

\* The number of allocated objects of the slab with SlabInfo a.
allocated_count(a) == objects_per_slab - slab_infos[a].free_objects_number

\* The Cache keeps one list of slabs with free objects (lib.rs 25-26): a new
\* slab is put on it (the low-occupancy list of the tests) and a slab that
\* leaves the full list is put on it (the high-occupancy list of the tests).
free_slabs_list_occupacy_less_75 == free_slabs_list
free_slabs_list_occupacy_more_75 == free_slabs_list

\* C25: between operations a slab is in the high-occupancy free list iff
\* threshold <= allocated count < objects_per_slab, in the full list iff
\* allocated count = objects_per_slab, and in the low-occupancy free list
\* iff allocated count < threshold, with threshold = floor(75 *
\* objects_per_slab / 100).
C25_ListsFollowOccupancy ==
    \A a \in HeldSlabInfos :
      /\ InList(free_slabs_list_occupacy_more_75, a)
           <=> /\ occupacy_more_75_minimum_allocated_objects_number <= allocated_count(a)
               /\ allocated_count(a) < objects_per_slab
      /\ InList(full_slabs_list, a) <=> allocated_count(a) = objects_per_slab
      /\ InList(free_slabs_list_occupacy_less_75, a)
           <=> allocated_count(a) < occupacy_more_75_minimum_allocated_objects_number

\* Some slab with a free object is at or above the threshold while another
\* is below it.
BothOccupanciesExist ==
    /\ \E a \in HeldSlabInfos :
         /\ slab_infos[a].free_objects_number >= 1
         /\ allocated_count(a) >= occupacy_more_75_minimum_allocated_objects_number
    /\ \E b \in HeldSlabInfos :
         allocated_count(b) < occupacy_more_75_minimum_allocated_objects_number

\* C27: whenever a slab with a free object at or above the threshold and a
\* slab below the threshold both exist, alloc takes the object from a slab
\* at or above the threshold, never from the lower-occupancy slab.
C27_AllocPrefersHighOccupancy ==
    [][ ( /\ last_call'.op = "alloc" /\ last_call'.ret # NULL
          /\ BothOccupanciesExist )
        => AllocatedBefore(last_call'.ret)
             >= occupacy_more_75_minimum_allocated_objects_number
      ]_vars

\* ------------------------------------- large objects, one page per slab
\* The large-object caches whose slab is one page, with two objects and
\* with a single object per slab.
LargeOnePageConfigInputs ==
    { [slab_size |-> 4096, page_size |-> 4096, object_size_type |-> Large, object_size |-> 2048, object_align |-> 8],
      [slab_size |-> 4096, page_size |-> 4096, object_size_type |-> Large, object_size |-> 4096, object_align |-> 8] }

InitLargeOnePage == InitWith(LargeOnePageConfigInputs)

SpecLargeOnePage == InitLargeOnePage /\ [][Next]_vars

\* The pages the delete_slab_info_addr calls of calls were made for.
DeletedPages(calls) == ArgsOf(calls, "delete_slab_info_addr")

\* C31: in a Large cache with slab_size = page_size every
\* delete_slab_info_addr(page) call of a free is made for a page whose
\* association is saved at that moment: it was saved before the free and
\* no earlier call of the same free deleted it; and alloc deletes nothing.
C31_DeleteOnlySavedPages ==
    [][ LET deleted == DeletedPages(backend_calls')
        IN  /\ last_call'.op = "alloc" => deleted = << >>
            /\ last_call'.op = "free" =>
                 \A i \in 1..Len(deleted) :
                   /\ deleted[i][1] \in DOMAIN ht_saved_slab_infos
                   /\ \A j \in 1..(i - 1) : deleted[j] # deleted[i]
      ]_vars

\* C31 witness: a free reclaimed a slab and deleted the association of its
\* page while another slab of the cache keeps its own.
C31_Witness ==
    /\ object_size_type = Large /\ slab_size = page_size
    /\ last_call.op = "free" /\ fault = "none"
    /\ DeletedPages(backend_calls) = << <<SlabOf(last_call.arg)>> >>
    /\ DOMAIN ht_saved_slab_infos # {}

\* ------------------------------------------ order of the reclaim calls
\* The names of the logged backend calls, in order.
FnsOf(calls) == [i \in 1..Len(calls) |-> calls[i].fn]

\* n times the name fn.
Repeated(fn, n) == [i \in 1..n |-> fn]

\* C32: in a Large cache a free that reclaims a slab calls, after the
\* lookup, free_slab, then free_slab_info, then delete_slab_info_addr for
\* each page, in that order; no association is deleted before
\* free_slab_info(p) is called, and at that moment a saved page
\* association maps to p.
C32_ReclaimCallOrder ==
    [][ ( /\ object_size_type = Large
          /\ last_call'.op = "free"
          /\ CallsOf(backend_calls', "free_slab") # {} )
        => /\ fault' = "none"
           /\ FnsOf(backend_calls')
                = <<"get_slab_info_addr", "free_slab", "free_slab_info">>
                  \o Repeated("delete_slab_info_addr", slab_size \div page_size)
           /\ \E page \in DOMAIN ht_saved_slab_infos :
                <<ht_saved_slab_infos[page]>> = backend_calls'[3].args
      ]_vars

\* C32 witness: a free reclaimed a two-page slab of a Large cache; the
\* SlabInfo storage was given back before the two deletions.
C32_Witness ==
    /\ object_size_type = Large /\ slab_size = 2 * page_size
    /\ last_call.op = "free" /\ fault = "none"
    /\ Len(backend_calls) = 5
    /\ backend_calls[3].fn = "free_slab_info"
    /\ backend_calls[4].fn = "delete_slab_info_addr"
    /\ backend_calls[5].fn = "delete_slab_info_addr"

\* ------------------------------------------- slots are handed out top down
\* The cache as allocations in a row leave it, down to the slots: every
\* held slab has its lowest slots free, listed in address order, and its
\* highest slots allocated.
HandedOutFromTop ==
    /\ FilledInOrder
    /\ \A a \in HeldSlabInfos :
         LET f == slab_infos[a].free_objects_number
             b == slab_infos[a].slab_ptr
         IN  /\ slab_infos[a].free_objects_list
                   = [j \in 1..f |-> free_object_addr(b, j - 1)]
             /\ AllocatedIn(b)
                   = {free_object_addr(b, j) : j \in f..(objects_per_slab - 1)}

\* C33: on an empty cache the i-th successful alloc in a row (i = 0, 1,
\* ...) returns base + (k - 1 - (i mod k)) * object_size, k =
\* objects_per_slab, where base is the slab alloc_slab returns in that call
\* when i mod k = 0 and the slab of the previous allocation otherwise; so
\* the slabs are filled in the order alloc_slab returned them, each from
\* its highest slot downwards.  Stated by induction on i.
C33_HighestSlotFirst ==
    /\ []((allocated_ptrs = {} /\ fault = "none") => HandedOutFromTop)
    /\ [][ (HandedOutFromTop /\ last_call'.op = "alloc" /\ last_call'.ret # NULL)
           => LET k == objects_per_slab
                  i == Cardinality(allocated_ptrs)
                  base == IF i % k = 0
                          THEN CHOOSE b \in SlabsGiven(backend_calls') : TRUE
                          ELSE slab_infos[front(free_slabs_list)].slab_ptr
              IN  /\ (i % k = 0) <=> (SlabsGiven(backend_calls') # {})
                  /\ last_call'.ret = base + ((k - 1 - (i % k)) * object_size)
                  /\ HandedOutFromTop'
         ]_vars

\* C33 witness: k + 2 allocations in a row, k >= 3, the last one returning
\* the slot below the highest one of the second slab.
C33_Witness ==
    /\ HandedOutFromTop
    /\ objects_per_slab >= 3
    /\ Cardinality(allocated_ptrs) = objects_per_slab + 2
    /\ last_call.op = "alloc"
    /\ last_call.ret = SlabOf(last_call.ret) + ((objects_per_slab - 2) * object_size)

\* ------------------------------------------------- one object per slab
\* C34: with objects_per_slab = 1 every successful alloc acquires a new
\* slab, which ends the call in the full list; every free finds the slab
\* in the full list and ends with the slab in no list and given back to the
\* backend (the passage through the free list happens inside the call and
\* the call does not fault); and after every call the free list is empty,
\* free_objects_number = 0 and the number of held slabs = full_slabs_number
\* = allocated_objects_number.
C34_SingleObjectSlabs ==
    [][ objects_per_slab = 1 =>
          /\ fault' = "none"
          /\ (last_call'.op = "alloc" /\ last_call'.ret # NULL) =>
                /\ SlabsGiven(backend_calls') = {SlabOf(last_call'.ret)}
                /\ SlabOf(last_call'.ret) \notin allocated_slab_addrs
                /\ InList(full_slabs_list', SlabInfoIn(slab_infos', SlabOf(last_call'.ret)))
          /\ last_call'.op = "free" =>
                /\ InList(full_slabs_list, SlabInfoOf(SlabOf(last_call'.arg)))
                /\ ~InList(full_slabs_list', SlabInfoOf(SlabOf(last_call'.arg)))
                /\ SlabInfoOf(SlabOf(last_call'.arg)) \notin DOMAIN slab_infos'
                /\ CallsOf(backend_calls', "free_slab") # {}
                /\ SlabOf(last_call'.arg) \notin allocated_slab_addrs'
          /\ free_slabs_list' = <<>>
          /\ statistics'.free_slabs_number = 0
          /\ statistics'.free_objects_number = 0
          /\ Len(full_slabs_list') = Cardinality(allocated_slab_addrs')
          /\ statistics'.full_slabs_number = Cardinality(allocated_slab_addrs')
          /\ statistics'.allocated_objects_number = Cardinality(allocated_slab_addrs')
          /\ Cardinality(allocated_ptrs') = Cardinality(allocated_slab_addrs')
      ]_vars

\* C34 witness: in a cache with one object per slab a free has reclaimed a
\* slab while another slab stays full.
C34_Witness ==
    /\ objects_per_slab = 1
    /\ last_call.op = "free" /\ fault = "none"
    /\ SlabOf(last_call.arg) \notin allocated_slab_addrs
    /\ Len(full_slabs_list) = 1 /\ free_slabs_list = <<>>

\* ------------------------------------------------ free count of a slab
\* The free count of the slab at slab_addr according to the records infos;
\* a slab the cache does not hold has all its objects free.
FreeCountIn(infos, slab_addr) ==
    IF SlabInfoIn(infos, slab_addr) # NULL
    THEN infos[SlabInfoIn(infos, slab_addr)].free_objects_number
    ELSE objects_per_slab

\* Every held slab's free count is the length of its free-object list and
\* objects_per_slab minus the number of its allocated objects.
FreeCountsExact ==
    \A a \in HeldSlabInfos :
      /\ slab_infos[a].free_objects_number = Len(slab_infos[a].free_objects_list)
      /\ slab_infos[a].free_objects_number
           = objects_per_slab - Cardinality(AllocatedIn(slab_infos[a].slab_ptr))

\* C35: between operations every held slab's free_objects_number equals
\* the number of nodes of its free-object list and objects_per_slab minus
\* the number of allocated objects located in the slab; a successful alloc
\* decreases by 1 the count of the slab of the returned object, a free
\* increases by 1 the count of the slab of the freed object (a slab not
\* held counting as entirely free), and no other slab's count changes.
C35_FreeCountPerSlab ==
    /\ []FreeCountsExact
    /\ [][ /\ (last_call'.op = "alloc" /\ last_call'.ret # NULL) =>
                \A b \in SlabRegions :
                  FreeCountIn(slab_infos', b)
                    = FreeCountIn(slab_infos, b)
                      - (IF b = SlabOf(last_call'.ret) THEN 1 ELSE 0)
           /\ (last_call'.op = "alloc" /\ last_call'.ret = NULL) =>
                \A b \in SlabRegions :
                  FreeCountIn(slab_infos', b) = FreeCountIn(slab_infos, b)
           /\ last_call'.op = "free" =>
                \A b \in SlabRegions :
                  FreeCountIn(slab_infos', b)
                    = FreeCountIn(slab_infos, b)
                      + (IF b = SlabOf(last_call'.arg) THEN 1 ELSE 0)
         ]_vars

\* C35 witness: two held slabs with different free counts, one of them
\* with both free and allocated objects, after a free.
C35_Witness ==
    /\ last_call.op = "free" /\ fault = "none"
    /\ FreeCountsExact
    /\ objects_per_slab >= 3
    /\ \E a, b \in HeldSlabInfos :
         /\ slab_infos[a].free_objects_number = 2
         /\ slab_infos[b].free_objects_number = 0
         /\ slab_infos[a].slab_ptr = SlabOf(last_call.arg)

\* ------------------------------------------------ free, then alloc again
\* The elements of a list.
Members(list) == {list[i] : i \in 1..Len(list)}

\* The allocated objects whose slab is full.
InFullSlab == {p \in allocated_ptrs : InList(full_slabs_list, SlabInfoOf(SlabOf(p)))}

\* free(p) immediately followed by alloc(), the backend answering the
\* alloc with slab_ret and info_ret if it is asked, is a round trip: alloc
\* returns p, makes no alloc_slab call, and the members of the two slab
\* lists and the four statistics are as before the free.
RoundTrip(p, slab_ret, info_ret) ==
    LET s1 == checked(free(Cur, p))
        r  == alloc(s1, slab_ret, info_ret)
        s2 == checked(r.s)
    IN  /\ s1.fault = "none" /\ s2.fault = "none"
        /\ r.ret = p
        /\ CallsOf(s2.calls, "alloc_slab") = {}
        /\ Members(s2.free_slabs_list) = Members(free_slabs_list)
        /\ Members(s2.full_slabs_list) = Members(full_slabs_list)
        /\ Len(s2.free_slabs_list) = Len(free_slabs_list)
        /\ Len(s2.full_slabs_list) = Len(full_slabs_list)
        /\ s2.statistics = statistics

\* The answers the backend can give to an alloc made right after free(p).
AnswersAfterFree(p) ==
    LET s1 == checked(free(Cur, p))
        slabs == IF need_new_slab(s1)
                 THEN {NULL} \cup (SlabRegions \ s1.allocated_slab_addrs)
                 ELSE {NULL}
        infos == IF need_new_slab(s1) /\ object_size_type = Large
                 THEN {NULL} \cup (SlabInfoRegions \ s1.allocated_slab_info_addrs)
                 ELSE {NULL}
    IN  slabs \X infos

\* C37 as claimed: for every allocated object p whose slab is full, free(p)
\* immediately followed by alloc() returns p again, makes no alloc_slab
\* call and restores the membership of the slab lists and all statistics.
C37_FullSlabRoundTrip ==
    fault = "none" =>
      \A p \in InFullSlab :
        \A ans \in AnswersAfterFree(p) : RoundTrip(p, ans[1], ans[2])

\* C37 amended: the same for caches with objects_per_slab > 1 (with a
\* single object per slab the free reclaims the slab and the alloc has to
\* ask the backend for a new one).
C37_FullSlabRoundTripSeveralObjects ==
    (fault = "none" /\ objects_per_slab > 1) =>
      \A p \in InFullSlab :
        \A ans \in AnswersAfterFree(p) : RoundTrip(p, ans[1], ans[2])

\* C37 witness: in a cache with several objects per slab an object of a
\* full slab makes the round trip while another slab with a free object
\* heads the free list.
C37_Witness ==
    /\ fault = "none" /\ objects_per_slab > 1
    /\ free_slabs_list # <<>>
    /\ \E p \in InFullSlab : RoundTrip(p, NULL, NULL)

\* --------------------------------------------- conservation of objects
\* C38: after every completed alloc or free, failed allocs included,
\* free_objects_number + allocated_objects_number = objects_per_slab *
\* (free_slabs_number + full_slabs_number); no statistic is below 0 and no
\* call aborts on a statistic going below 0.
C38_ObjectsConserved ==
    /\ fault = "none"
    /\ statistics.free_objects_number + statistics.allocated_objects_number
         = objects_per_slab * (statistics.free_slabs_number + statistics.full_slabs_number)
    /\ statistics.free_slabs_number >= 0
    /\ statistics.full_slabs_number >= 0
    /\ statistics.free_objects_number >= 0
    /\ statistics.allocated_objects_number >= 0

\* C38 witness: an alloc of a Large cache failed after its slab had been
\* obtained (the SlabInfo storage was refused) while the cache holds a full
\* slab.
C38_Witness ==
    /\ last_call.op = "alloc" /\ last_call.ret = NULL
    /\ AllocSlabInfoFailedAfterSlab(backend_calls)
    /\ statistics.full_slabs_number >= 1
    /\ statistics.allocated_objects_number = objects_per_slab

\* ------------------------------------ every configuration new accepts
\* Arguments Cache::new is called with beyond the shapes of the tests: a
\* page size that is not a power of two and an object type whose size is
\* not a multiple of the pointer alignment ([u32; 5]: size 20, align 4).
\* InitWith keeps the ones new accepts.
AcceptedConfigInputs ==
    { [slab_size |-> 4096, page_size |-> 4096, object_size_type |-> Small, object_size |-> 1024, object_align |-> 8],
      [slab_size |-> 8192, page_size |-> 4096, object_size_type |-> Large, object_size |-> 3072, object_align |-> 8],
      [slab_size |-> 6144, page_size |-> 6144, object_size_type |-> Small, object_size |-> 2048, object_align |-> 8],
      [slab_size |-> 128, page_size |-> 128, object_size_type |-> Small, object_size |-> 20, object_align |-> 4] }

InitAccepted == InitWith(AcceptedConfigInputs)

SpecAccepted == InitAccepted /\ [][Next]_vars

\* The greatest multiple of page_size not exceeding addr.
page_floor(addr) == (addr \div page_size) * page_size

\* C39: for every configuration accepted by Cache::new and every object
\* address returned by alloc, align_down(object address, page_size) is the
\* greatest multiple of page_size not exceeding the address, and free
\* locates the slab of the object (it does not abort or read memory that
\* is not a SlabInfo of the cache).
C39_AlignDownIsPageFloor ==
    /\ \A p \in allocated_ptrs : align_down(p, page_size) = page_floor(p)
    /\ last_call.op = "free" => fault = "none"

\* C40: for every configuration accepted by Cache::new, with a backend that
\* returns page-aligned slabs and aligned SlabInfo storage, alloc trips
\* none of its assertions: every slot address is aligned for FreeObject
\* and the computed SlabInfo address of a Small cache lies above the slab
\* base and at most at slab base + slab_size - size_of(SlabInfo).
C40_AllocAssertionsHold ==
    last_call.op = "alloc" => fault = "none"

\* -------------------------------------------- a call, statement by statement
\* alloc and free as the sequence of the statements that loop or lock: the
\* fill loop of a new slab (lib.rs 174-198), the page-deletion loop (lib.rs
\* 341-344) and the statements that lock SlabInfo.data of the slab the call
\* works on.  Each of those statements takes the lock in a temporary guard
\* that is dropped at the end of the statement (of the condition, for the
\* two ifs).  What the call will do to the cache (what the backend answers,
\* what is returned) is drawn when the call is entered, nobody else seeing
\* the cache during a call on &mut self; from there the position walks
\* through the statements that outcome leads through.  A position is the
\* line of lib.rs of the statement.
StepConfigInputs ==
    { c \in ConfigInputs : \/ c.object_size_type = Small /\ c.object_size = 2048
                           \/ c.object_size_type = Large /\ c.object_size = 3072 }

InitSteps == InitWith(StepConfigInputs)

\* The statements of alloc and of free that lock SlabInfo.data.
AllocLockLines == {190, 205}
FreeLockLines == {280, 296, 297, 300, 303, 308, 322}
LockLines == AllocLockLines \cup FreeLockLines

\* The statement that follows a locking statement.
NextLine(line) ==
    CASE line = 190 -> 174
      [] line = 280 -> 296
      [] line = 296 -> 297
      [] line = 297 -> 300
      [] line = 300 -> 303
      [] line = 303 -> 308
      [] line = 308 -> 322
      [] OTHER -> Idle

\* Variant: the guard outlives its statement.
guard_kept(lock) == lock

\* The temporary MutexGuard is dropped at the end of the statement.
guard_dropped(lock) == FALSE

\* The call in progress got a new slab from the backend.
GotSlab == SlabsGiven(backend_calls) # {} /\ last_call.ret # NULL

\* The free in progress finds its slab entirely free.
Reclaims == CallsOf(backend_calls, "free_slab") # {}

NoCallEffect ==
    UNCHANGED <<config_vars, cache_vars, backend_vars, allocated_ptrs, last_call,
                backend_calls, fault, client_vars>>

\* A client enters alloc.
CallAlloc ==
    /\ pc.line = Idle
    /\ AllocCall
    /\ pc' = At(112)
    /\ UNCHANGED <<loop_index, slab_lock, client_vars>>

\* Line 112: the free list is not empty, go to the allocation of the object.
AllocHasSlab ==
    /\ pc.line = 112 /\ last_call.ret # NULL /\ ~GotSlab
    /\ pc' = At(205)
    /\ UNCHANGED <<loop_index, slab_lock>>
    /\ NoCallEffect

\* Lines 113-143: the backend refuses the slab or the SlabInfo storage and
\* alloc returns null.
AllocFails ==
    /\ pc.line = 112 /\ last_call.ret = NULL
    /\ pc' = At(Idle)
    /\ UNCHANGED <<loop_index, slab_lock>>
    /\ NoCallEffect

\* Lines 113-172: the backend gives a slab; enter the fill loop.
AllocGetsSlab ==
    /\ pc.line = 112 /\ GotSlab
    /\ pc' = At(174)
    /\ loop_index' = 0
    /\ UNCHANGED slab_lock
    /\ NoCallEffect

\* Line 174: for free_object_index in 0..self.objects_per_slab
FillLoop ==
    /\ pc.line = 174
    /\ pc' = IF loop_index < objects_per_slab THEN At(190) ELSE At(205)
    /\ UNCHANGED <<loop_index, slab_lock>>
    /\ NoCallEffect

\* data.lock() of a locking statement: possible only while the Mutex is
\* free (a spin lock: otherwise the statement never gets further).
Acquire ==
    /\ pc.line \in LockLines /\ ~pc.locked
    /\ ~slab_lock
    /\ slab_lock' = TRUE
    /\ pc' = [pc EXCEPT !.locked = TRUE]
    /\ UNCHANGED loop_index
    /\ NoCallEffect

\* The end of a locking statement that is not the last one of the call.
Release ==
    /\ pc.line \in LockLines \ {205, 322} /\ pc.locked
    /\ slab_lock' = guard_dropped(slab_lock)
    /\ pc' = At(NextLine(pc.line))
    /\ loop_index' = IF pc.line = 190 THEN loop_index + 1 ELSE loop_index
    /\ NoCallEffect

\* Lines 205-244: the object is taken and alloc returns it.
AllocReturns ==
    /\ pc.line = 205 /\ pc.locked
    /\ slab_lock' = guard_dropped(slab_lock)
    /\ pc' = At(Idle)
    /\ UNCHANGED loop_index
    /\ NoCallEffect

\* A client enters free with an object it holds.
CallFree ==
    /\ pc.line = Idle
    /\ FreeCall(allocated_ptrs)
    /\ pc' = At(258)
    /\ UNCHANGED <<loop_index, slab_lock, client_vars>>

\* Lines 258-284: the SlabInfo address is computed, or looked up and its
\* slab_ptr read under the lock.
FreeLocate ==
    /\ pc.line = 258
    /\ pc' = IF SlabInfoAddrComputed THEN At(296) ELSE At(280)
    /\ UNCHANGED <<loop_index, slab_lock>>
    /\ NoCallEffect

\* Lines 322-345 without the deletion loop: free returns.
FreeReturns ==
    /\ pc.line = 322 /\ pc.locked
    /\ ~(Reclaims /\ ~SlabInfoAddrComputed)
    /\ slab_lock' = guard_dropped(slab_lock)
    /\ pc' = At(Idle)
    /\ UNCHANGED loop_index
    /\ NoCallEffect

\* Lines 322-340: the slab is entirely free; enter the deletion loop.
FreeReclaims ==
    /\ pc.line = 322 /\ pc.locked
    /\ Reclaims /\ ~SlabInfoAddrComputed
    /\ slab_lock' = guard_dropped(slab_lock)
    /\ pc' = At(341)
    /\ loop_index' = 0
    /\ NoCallEffect

\* Lines 341-344: one iteration of for i in 0..(slab_size / page_size).
DeletePage ==
    /\ pc.line = 341 /\ loop_index < slab_size \div page_size
    /\ loop_index' = loop_index + 1
    /\ UNCHANGED <<pc, slab_lock>>
    /\ NoCallEffect

\* The deletion loop is over and free returns.
FreeReturnsAfterDeletions ==
    /\ pc.line = 341 /\ ~(loop_index < slab_size \div page_size)
    /\ pc' = At(Idle)
    /\ UNCHANGED <<loop_index, slab_lock>>
    /\ NoCallEffect

\* The steps of a call in progress.
CallStep ==
    \/ AllocHasSlab \/ AllocFails \/ AllocGetsSlab \/ FillLoop
    \/ Acquire \/ Release \/ AllocReturns
    \/ FreeLocate \/ FreeReturns \/ FreeReclaims
    \/ DeletePage \/ FreeReturnsAfterDeletions

NextSteps == CallAlloc \/ CallFree \/ CallStep

\* The thread that is in a call keeps running.
SpecSteps == InitSteps /\ [][NextSteps]_vars /\ WF_vars(CallStep)

\* C36: every call of alloc and free returns (each backend call returning):
\* the fill loop ends after objects_per_slab iterations, the deletion loop
\* after slab_size / page_size iterations, one per delete_slab_info_addr
\* call, and whenever the call comes to a statement that locks
\* SlabInfo.data the lock is free.
C36_CallsTerminate ==
    /\ (pc.line # Idle) ~> (pc.line = Idle)
    /\ []((pc.line \in LockLines /\ ~pc.locked) => ~slab_lock)
    /\ [][ /\ (pc.line = 174 /\ pc'.line = 205) => loop_index = objects_per_slab
           /\ (pc.line = 341 /\ pc'.line = Idle) =>
                /\ loop_index = slab_size \div page_size
                /\ Len(DeletedPages(backend_calls)) = loop_index
         ]_vars

\* C36 witness: a free is past the two iterations of its deletion loop and
\* the lock it took seven times is free.
C36_Witness ==
    /\ pc.line = 341
    /\ loop_index = 2 /\ slab_size = 2 * page_size
    /\ ~slab_lock

====
